---- MODULE Spec2Model ----
(***************************************************************************)
(* The Ganesha export engine of manila/share/drivers/ganesha:              *)
(*   GanesHarness.add_export / remove_export / get_export_id               *)
(*   (ganesharness.py), GaneshaNASHelper.allow_access / deny_access        *)
(*   (__init__.py), the document helpers patch and walk (utils.py) and the *)
(*   configuration codec mkconf / parseconf (ganesharness.py).             *)
(* Every self.execute(...) of the source is one atomic step that either    *)
(* succeeds (with the command's effect) or raises ProcessExecutionError    *)
(* (without effect).  The two SQL statements that get_export_id hands to   *)
(* one sqlite3 invocation run outside a transaction, so each of them is a  *)
(* step of its own.                                                        *)
(* A document (a Python dict) is a function from keys to values; a value   *)
(* is a record [t, v] with t = "s" (string), "n" (number), "b" (boolean)   *)
(* or "m" (nested dict).  In the store an export file holds the document   *)
(* that was written to it; the text form of documents is the subject of    *)
(* the codec part.                                                         *)
(***************************************************************************)
EXTENDS Integers, Sequences, FiniteSets, TLC

\* The value the exportid row is created with (ganesharness.py:168).
Seed == 100

\* Bound of the model: the number of export ids the counter may hand out.
MaxAllocs == 2

\* The largest 16 bit unsigned integer: Export_Id is one ("uint16:%d").
UINT16_MAX == 65535

\* The counter values a run of the model starts from: the seed, and a
\* database that has reached the end of the 16 bit range.
Bases == {Seed, UINT16_MAX}

\* The exportid row holds x and the model lets it grow further: at most
\* MaxAllocs ids are handed out from a start value.
HasRoom(x) == \E base \in Bases : base <= x /\ x < base + MaxAllocs

\* share['name'] of the shares that access is given to.
Shares == {"s1", "s2"}

\* The access rules handed to allow_access and deny_access.
Accesses ==
    {[id |-> "a1", access_type |-> "ip", access_to |-> "10.0.0.1"],
     [id |-> "a1", access_type |-> "user", access_to |-> "alice"]}

\* "%s_%s" % (name, accid)
ExportName(share, accid) == share \o "_" \o accid

\* Export names "<share name>_<access id>" (__init__.py:129, 132).
Names == {ExportName(s, a.id) : s \in Shares, a \in Accesses}

\* The callers (threads of the share driver) that may invoke the engine.
Procs == {1, 2}

\* Content of an export file that does not exist.
NoFile == 0

\* Export_Id of an export file whose content does not parse.
Unreadable == -1

\* Value of the exportid row in a database that has no table ganesha yet.
NoTable == -1

\* base_path, the directory of the shares, as the driver passes it.
BasePath == "/shares"

\* _ganesha_export_dir for the default ganesha_config_path.
ExportDir == "/etc/ganesha/export.d"

----------------------------------------------------------------------------
\* Documents

Str(s) == [t |-> "s", v |-> s]
Num(n) == [t |-> "n", v |-> n]
Bool(b) == [t |-> "b", v |-> b]
Map(d) == [t |-> "m", v |-> d]

\* Mutant of patch: a value the base already has is kept.
RECURSIVE patch_basewins(_, _)
patch_basewins(base, ovls) ==
    IF Len(ovls) = 0
    THEN base
    ELSE LET ovl == Head(ovls)
             merged ==
                 [k \in DOMAIN base \cup DOMAIN ovl |->
                     IF k \notin DOMAIN ovl
                     THEN base[k]
                     ELSE IF k \in DOMAIN base /\ ovl[k].t = "m" /\ base[k].t = "m"
                          THEN Map(patch_basewins(base[k].v, <<ovl[k].v>>))
                          ELSE IF k \in DOMAIN base THEN base[k] ELSE ovl[k]]
         IN  patch_basewins(merged, Tail(ovls))

\* Mutant of patch: an overlay's value always replaces the base's value.
RECURSIVE patch_shallow(_, _)
patch_shallow(base, ovls) ==
    IF Len(ovls) = 0
    THEN base
    ELSE patch_shallow([k \in DOMAIN base \cup DOMAIN Head(ovls) |->
                          IF k \in DOMAIN Head(ovls) THEN Head(ovls)[k] ELSE base[k]],
                       Tail(ovls))

\* utils.patch(base, *ovls): the overlays are merged into base one after the
\* other; a dict of the overlay is merged into a dict of the base, any other
\* value of the overlay is put in place of what the base has.
RECURSIVE patch(_, _)
patch(base, ovls) ==
    IF Len(ovls) = 0
    THEN base
    ELSE LET ovl == Head(ovls)
             merged ==
                 [k \in DOMAIN base \cup DOMAIN ovl |->
                     IF k \notin DOMAIN ovl
                     THEN base[k]
                     ELSE IF k \in DOMAIN base /\ ovl[k].t = "m" /\ base[k].t = "m"
                          THEN Map(patch(base[k].v, <<ovl[k].v>>))
                          ELSE ovl[k]]
         IN  patch(merged, Tail(ovls))

\* utils.walk(dct): the (key, value) pairs of the values that are not dicts,
\* at any depth (as a set: the order of a dict's items is not defined).
RECURSIVE walk(_)
walk(dct) ==
    UNION {IF dct[k].t = "m" THEN walk(dct[k].v) ELSE {<<k, dct[k]>>} :
               k \in DOMAIN dct}

\* The loop of _write_export_file over walk(cfdict): the exceptions it can
\* end with, or "ok" when it runs through.  v[0] of an empty string is an
\* IndexError; which offending value the loop meets first is not defined.
StubCheck(cfdict) ==
    LET strings == {kv \in walk(cfdict) : kv[2].t = "s"}
        raised  == {IF Len(kv[2].v) = 0
                    THEN "IndexError"
                    ELSE IF Head(kv[2].v) = "@" THEN "InvalidParameterValue"
                                                ELSE "ok" : kv \in strings}
    IN  IF raised \ {"ok"} = {} THEN {"ok"} ELSE raised \ {"ok"}

\* What patch(cf, template, ovl) with cf = {} leaves in template, cf being
\* the dict it returns: a dict of the template is stored in cf as it is
\* (base[k] = v) and ovl is then merged into that same dict; the other values
\* of the template stay.
Shared(template, ovl, cf) ==
    [k \in DOMAIN template |->
        IF template[k].t = "m" /\ (k \in DOMAIN ovl => ovl[k].t = "m")
        THEN cf[k]
        ELSE template[k]]

\* The dict that allow_access patches over the export template.
Overrides(share, access, xid) ==
    [EXPORT |-> Map(
        [Export_Id |-> Num(xid),
         Path      |-> Str(BasePath \o "/" \o share),
         Pseudo    |-> Str(BasePath \o "/" \o ExportName(share, access.id)),
         Tag       |-> Str(access.id),
         CLIENT    |-> Map([Clients |-> Str(access.access_to)]),
         FSAL      |-> Map(<<>>)])]

\* An export template that gives a value to every key.
TemplateFilled ==
    [EXPORT |-> Map(
        [Export_Id |-> Num(1),
         Path      |-> Str("/"),
         Pseudo    |-> Str("/"),
         Tag       |-> Str("none"),
         Squash    |-> Str("None"),
         CLIENT    |-> Map([Clients |-> Str("*"), Access_Type |-> Str("RW")]),
         FSAL      |-> Map([Name |-> Str("GLUSTER")])])]

\* An export template with a stub that allow_access does not fill in.
TemplateStub ==
    patch(TemplateFilled,
          <<[EXPORT |-> Map([FSAL |-> Map([Hostname |-> Str("@config")])])]>>)

\* An export template with an empty string value.
TemplateBlank ==
    patch(TemplateFilled, <<[EXPORT |-> Map([Squash |-> Str("")])]>>)

\* What _load_conf_dir may have found as the export template.
Templates == {TemplateFilled, TemplateStub, TemplateBlank}

----------------------------------------------------------------------------
\* The store

VARIABLES
    export_d,        \* export.d: name -> content of <name>.conf
    index_conf,      \* content of export.d/INDEX.conf
    tmps,            \* names of the temporary files abandoned in export.d
    live,            \* the Export_Ids registered with the running Ganesha
    counter,         \* the value of the exportid row of the sqlite database
    export_template, \* GaneshaNASHelper.export_template
    proc,            \* per caller: the position and locals of its current call
    returned,        \* history: the values get_export_id has returned, in order
    clean,           \* history: no disturbing event has happened so far (see C8)
    fcall,           \* a call of one of the pure functions, and what it gave
    gluster_used_vols_dict, \* GlusterfsNativeShareDriver: volume -> its manager
    volume_pattern_keys,    \* the named groups of glusterfs_volume_pattern
    gcall            \* the current call of the glusterfs_native driver

vars == <<export_d, index_conf, tmps, live, counter, export_template, proc,
          returned, clean, fcall, gluster_used_vols_dict, volume_pattern_keys,
          gcall>>

\* The variables of the glusterfs_native driver.
gvars == <<gluster_used_vols_dict, volume_pattern_keys, gcall>>

\* Content of a file: absent, or data written completely or only in part.
\* The data of an export file is its document, the data of INDEX.conf the
\* sequence of its lines.
Absent == [st |-> "absent", data |-> <<>>]
Complete(data) == [st |-> "complete", data |-> data]
Partial(data) == [st |-> "partial", data |-> data]

\* cfdict["EXPORT"]["Export_Id"]
Export_Id(cfdict) == cfdict.EXPORT.v.Export_Id.v

\* "%include " + os.path.join(self._ganesha_export_dir, f) + "\n"
IncludeLine(f) == "%include " \o ExportDir \o "/" \o f \o "\n"

\* _getpath(name), relative to export.d
FileName(name) == name \o ".conf"

\* mktemp -t <fname>.XXXXXX: one name stands for all names mktemp may make
\* from the pattern.
TempName(fname) == fname \o ".XXXXXX"

\* export.d seen through the Export_Ids: name -> Export_Id held by
\* <name>.conf, or NoFile.
files ==
    [n \in Names |->
        CASE export_d[n].st = "absent" -> NoFile
          [] export_d[n].st = "partial" -> Unreadable
          [] OTHER -> Export_Id(export_d[n].data)]

\* The names whose files INDEX.conf includes.
index ==
    {n \in Names :
        /\ index_conf.st = "complete"
        /\ \E i \in DOMAIN index_conf.data :
               index_conf.data[i] = IncludeLine(FileName(n))}

\* What a call sees of the store when it starts (history, for frame claims).
Snapshot ==
    [files |-> files, index |-> index, live |-> live, counter |-> counter,
     export_d |-> export_d, index_conf |-> index_conf, tmps |-> tmps,
     template |-> export_template]

EmptySnap ==
    [files |-> [n \in Names |-> NoFile], index |-> {}, live |-> {},
     counter |-> Seed, export_d |-> [n \in Names |-> Absent],
     index_conf |-> Absent, tmps |-> {}, template |-> <<>>]

NoAccess == [id |-> "none", access_type |-> "none", access_to |-> "none"]

\* A caller that is not inside a call.
IdleRec ==
    [pc |-> "idle", op |-> "none", name |-> "none", share |-> "none",
     access |-> NoAccess, doc |-> <<>>, tmp |-> "none", xid |-> 0,
     mine |-> 0, undos |-> <<>>, ui |-> 0, ls |-> <<>>, err |-> "none",
     result |-> "none", log |-> <<>>, pre |-> EmptySnap]

\* What a call of a pure function gave: a value, or the exception it
\* raised; Pending before it has run.
Value(v) == [st |-> "value", val |-> v]

Raised(e) == [st |-> "raised", val |-> e]

Pending == [st |-> "pending", val |-> ""]

\* No call of a pure function.
NoCall == [op |-> "none", pc |-> "done", arg |-> <<>>, text |-> "", out |-> Pending]

\* No call of the glusterfs_native driver.
NoGCall == [op |-> "none", pc |-> "idle", size |-> 0, locn |-> "", pre |-> <<>>,
            vol |-> "", fetch |-> "none", setup |-> "none", wipe |-> "none", result |-> ""]

\* The glusterfs_native driver is not in use.
NoGluster ==
    /\ gluster_used_vols_dict = <<>>
    /\ volume_pattern_keys = {}
    /\ gcall = NoGCall

\* Mutant of SqlCreate: the insert statement also runs when the table exists
\* and replaces the row.
SqlCreate_reseed(v) ==
    IF v = NoTable
    THEN [value |-> Seed, stderr |-> ""]
    ELSE [value |-> Seed, stderr |-> "Error: table ganesha already exists\n"]

\* 'create table ganesha(key varchar(20) primary key, value int);'
\* 'insert into ganesha values("exportid", 100);' run by sqlite3 on a database
\* whose exportid row holds v: sqlite3 stops at the first statement that
\* fails, so an existing table keeps its row.
SqlCreate(v) ==
    IF v = NoTable
    THEN [value |-> Seed, stderr |-> ""]
    ELSE [value |-> v, stderr |-> "Error: table ganesha already exists\n"]

\* except ProcessExecutionError as e: if e.stderr != '...': raise
Tolerated(stderr) == stderr = "Error: table ganesha already exists\n"

\* State after init_helper on a fresh host: empty export.d, no INDEX.conf,
\* nothing registered, counter row created with the seed, and the export
\* template loaded.
StoreInit ==
    /\ export_d = [n \in Names |-> Absent]
    /\ index_conf = Absent
    /\ tmps = {}
    /\ live = {}
    /\ counter = SqlCreate(NoTable).value
    /\ proc = [p \in Procs |-> IdleRec]
    /\ returned = <<>>
    /\ clean = TRUE

Init ==
    /\ StoreInit
    /\ export_template \in Templates
    /\ fcall = NoCall
    /\ NoGluster

----------------------------------------------------------------------------
\* Helpers for the control flow of a call.

\* r with command c recorded as issued, and whether it succeeded.
Logged(r, c, ok) == [r EXCEPT !.log = Append(@, [c |-> c, ok |-> ok])]

\* The call ends: res is "ok" (normal return) or the error raised to the caller.
Done(r, res) == [r EXCEPT !.pc = "done", !.result = res]

\* Mutant of Raise: remove_export without its finally block.
Raise_nofinally(r, e) ==
    CASE r.op = "allow_access" /\ r.pc \in {"ae_check", "wf_mktemp", "wf_cat",
                                            "wf_mv", "ae_dbus", "ix_ls",
                                            "ix_mktemp", "ix_cat", "ix_mv"}
           -> [r EXCEPT !.pc = "ae_except", !.err = e, !.ui = 1]
      [] OTHER -> Done(r, e)

\* An exception e leaves the statement at r.pc.  Inside add_export's try it is
\* caught by the bare except (the undo loop starts); inside remove_export's
\* try the finally block runs with e pending; anywhere else it propagates.
Raise(r, e) ==
    CASE r.op = "allow_access" /\ r.pc \in {"ae_check", "wf_mktemp", "wf_cat",
                                            "wf_mv", "ae_dbus", "ix_ls",
                                            "ix_mktemp", "ix_cat", "ix_mv"}
           -> [r EXCEPT !.pc = "ae_except", !.err = e, !.ui = 1]
      [] r.op = "remove_export" /\ r.pc \in {"re_cat", "re_dbus"}
           -> [r EXCEPT !.pc = "re_rm", !.err = e]
      [] OTHER -> Done(r, e)

\* The caller p moves to r2; ok is FALSE when the step disturbs the store in
\* the sense of the history variable clean.
Step(p, r2, ok) ==
    /\ proc' = [proc EXCEPT ![p] = r2]
    /\ clean' = (clean /\ ok)
    /\ UNCHANGED <<export_template, fcall, gvars>>

\* A failing command in remove_export counts as a disturbance.
Quiet(r) == r.op # "remove_export"

\* Mutant of RegisterUndo: the undo action is not registered.
RegisterUndo_dropped(undos, u) == undos

\* undos.append(u)
RegisterUndo(undos, u) == Append(undos, u)

\* "for u in undos": the i-th undo action that the handler runs.
UndoAt(undos, i) == undos[i]

\* Mutant of SqlUpdate: the value wraps around at the end of the 16 bit range.
SqlUpdate_wrap16(v) == (v + 1) % (UINT16_MAX + 1)

\* Mutant of SqlUpdate: the update leaves the value as it is.
SqlUpdate_noincrement(v) == v

\* 'update ganesha set value = value + 1;'
SqlUpdate(v) == v + 1

----------------------------------------------------------------------------
\* The listing of export.d

\* The characters of file names, in the order of their codes.
Alphabet == ".0123456789ABCDEFGHIJKLMNOPQRSTUVWXYZ_abcdefghijklmnopqrstuvwxyz"

Ord(c) == CHOOSE i \in 1..Len(Alphabet) : SubSeq(Alphabet, i, i) = c

\* a sorts before b
RECURSIVE StrLess(_, _)
StrLess(a, b) ==
    IF Len(b) = 0 THEN FALSE
    ELSE IF Len(a) = 0 THEN TRUE
    ELSE IF Head(a) = Head(b) THEN StrLess(Tail(a), Tail(b))
    ELSE Ord(Head(a)) < Ord(Head(b))

\* The names of S in the order ls prints them.
RECURSIVE LsOrder(_)
LsOrder(S) ==
    IF S = {}
    THEN <<>>
    ELSE LET first == CHOOSE x \in S : \A y \in S \ {x} : StrLess(x, y)
         IN  <<first>> \o LsOrder(S \ {first})

\* The temporary files that calls in progress have in export.d.
TempsInUse ==
    {TempName(FileName(proc[q].name)) :
         q \in {x \in Procs : proc[x].pc \in {"wf_cat", "wf_mv"}}}
    \cup {TempName(FileName("INDEX")) :
              q \in {x \in Procs : proc[x].pc \in {"ix_cat", "ix_mv"}}}

\* The entries of export.d.
DirEntries ==
    {FileName(n) : n \in {m \in Names : export_d[m].st # "absent"}}
    \cup (IF index_conf.st # "absent" THEN {FileName("INDEX")} ELSE {})
    \cup tmps \cup TempsInUse

\* Mutant of IsExportFile: the pattern is not anchored at the end of the name.
IsExportFile_unanchored(f) ==
    /\ \E i \in 1..Len(f) : i + 4 <= Len(f) /\ SubSeq(f, i, i + 4) = ".conf"
    /\ f # "INDEX.conf"

\* Mutant of IsExportFile: INDEX.conf is not excluded.
IsExportFile_anyconf(f) ==
    Len(f) >= 5 /\ SubSeq(f, Len(f) - 4, Len(f)) = ".conf"

\* lambda f: self.confrx.search(f) and f != "INDEX.conf", confrx = '\.conf\Z'
IsExportFile(f) ==
    /\ Len(f) >= 5 /\ SubSeq(f, Len(f) - 4, Len(f)) = ".conf"
    /\ f # "INDEX.conf"

\* Mutant of Listing: the index is made from names, not from the files there.
Listing_everything == LsOrder({FileName(n) : n \in Names})

\* Mutant of Listing: only the first name of the output of ls is taken.
Listing_first ==
    LET l == SelectSeq(LsOrder(DirEntries) \o <<"">>, IsExportFile)
    IN  IF Len(l) > 1 THEN <<l[1]>> ELSE l

\* files of _mkindex: the output of ls split at "\n" (which leaves an empty
\* string after the last name) and filtered.
Listing == SelectSeq(LsOrder(DirEntries) \o <<"">>, IsExportFile)

----------------------------------------------------------------------------
\* The configuration codec.  A text is a string; Head, Tail, SubSeq, Len
\* and \o are used on strings character by character.

\* IWIDTH (ganesharness.py:27)
IWIDTH == 2

\* \s of the regular expressions, and the whitespace of JSON
IsSpace(c) == c \in {" ", "\t", "\n", "\r", "\f"}

IsDigit(c) == c \in {"0", "1", "2", "3", "4", "5", "6", "7", "8", "9"}

DigitVal(c) == CHOOSE d \in 0..9 : SubSeq("0123456789", d + 1, d + 1) = c

\* s without its leading whitespace
RECURSIVE SkipSpace(_)
SkipSpace(s) ==
    IF Len(s) > 0 /\ IsSpace(Head(s)) THEN SkipSpace(Tail(s)) ELSE s

\* The longest prefix of s made of digits.
RECURSIVE TakeDigits(_)
TakeDigits(s) ==
    IF Len(s) > 0 /\ IsDigit(Head(s)) THEN Head(s) \o TakeDigits(Tail(s)) ELSE ""

\* Mutant of ToInt: only the last digit counts.
ToInt_lastdigit(ds) ==
    IF Len(ds) = 0 THEN 0 ELSE DigitVal(SubSeq(ds, Len(ds), Len(ds)))

\* int(ds) for a string of digits
RECURSIVE ToInt(_)
ToInt(ds) ==
    IF Len(ds) = 0
    THEN 0
    ELSE 10 * ToInt(SubSeq(ds, 1, Len(ds) - 1)) + DigitVal(SubSeq(ds, Len(ds), Len(ds)))

\* str(n) for n >= 0
RECURSIVE ToDigits(_)
ToDigits(n) ==
    IF n < 10
    THEN SubSeq("0123456789", n + 1, n + 1)
    ELSE ToDigits(n \div 10) \o SubSeq("0123456789", (n % 10) + 1, (n % 10) + 1)

\* The inside of json.dumps(s) for a string s: the characters with '"', '\'
\* and the control characters escaped.
RECURSIVE JsonEscape(_)
JsonEscape(s) ==
    IF Len(s) = 0
    THEN ""
    ELSE LET c == Head(s)
             e == CASE c = "\"" -> "\\\""
                    [] c = "\\" -> "\\\\"
                    [] c = "\n" -> "\\n"
                    [] c = "\t" -> "\\t"
                    [] c = "\r" -> "\\r"
                    [] OTHER -> c
         IN  e \o JsonEscape(Tail(s))

\* json.dumps(v) for a value that is not a dict
JsonDumps(v) ==
    CASE v.t = "s" -> "\"" \o JsonEscape(v.v) \o "\""
      [] v.t = "n" -> IF v.v < 0 THEN "-" \o ToDigits(0 - v.v) ELSE ToDigits(v.v)
      [] v.t = "b" -> IF v.v THEN "true" ELSE "false"
      [] OTHER -> "null"

\* _dump_to_conf(cfdict, out, indent): the text written to out.  DumpItems
\* is the loop over the items of a dict, taken in the order of the keys
\* (the order of a dict's items is not defined); an item whose value is None
\* is left out.
RECURSIVE _dump_to_conf(_, _)
RECURSIVE DumpItems(_, _, _)
_dump_to_conf(cfdict, indent) ==
    IF cfdict.t = "m"
    THEN DumpItems(cfdict.v, LsOrder(DOMAIN cfdict.v), indent)
    ELSE LET dj == JsonDumps(cfdict)
         IN  IF cfdict.t = "s" /\ cfdict.v = SubSeq(dj, 2, Len(dj) - 1)
             THEN cfdict.v
             ELSE dj

\* Mutant of DumpItems: a key whose value is None is written with an empty
\* value.
RECURSIVE DumpItems_emptynone(_, _, _)
DumpItems_emptynone(d, keys, indent) ==
    IF Len(keys) = 0
    THEN ""
    ELSE LET k   == Head(keys)
             v   == d[k]
             pad == SubSeq("                                ", 1, indent * IWIDTH)
         IN  pad \o k \o " "
             \o (IF v.t = "m"
                 THEN "{\n" \o _dump_to_conf(v, indent + 1) \o pad \o "}"
                 ELSE IF v.t = "z"
                 THEN "= ;"
                 ELSE "= " \o _dump_to_conf(v, indent) \o ";")
             \o "\n" \o DumpItems_emptynone(d, Tail(keys), indent)

DumpItems(d, keys, indent) ==
    IF Len(keys) = 0
    THEN ""
    ELSE LET k   == Head(keys)
             v   == d[k]
             pad == SubSeq("                                ", 1, indent * IWIDTH)
             item == IF v.t = "z"
                     THEN ""
                     ELSE pad \o k \o " "
                          \o (IF v.t = "m"
                              THEN "{\n" \o _dump_to_conf(v, indent + 1) \o pad \o "}"
                              ELSE "= " \o _dump_to_conf(v, indent) \o ";")
                          \o "\n"
         IN  item \o DumpItems(d, Tail(keys), indent)

\* mkconf(cfdict)
mkconf(cfdict) == _dump_to_conf(Map(cfdict), 0)

\* json.loads.  A parse step gives ok, the value read and the text after it.
\* Arrays, \u escapes and exponents are not read (none is produced by
\* _conf2json for the texts of this model).
None == [t |-> "z", v |-> 0]

Float(text) == [t |-> "f", v |-> text]

ParseFail == [ok |-> FALSE, v |-> None, rest |-> ""]

ParseOk(v, rest) == [ok |-> TRUE, v |-> v, rest |-> rest]

\* A JSON string after its opening quote.
RECURSIVE JsonString(_, _)
JsonString(s, acc) ==
    IF Len(s) = 0
    THEN ParseFail
    ELSE LET c == Head(s)
         IN  IF c = "\""
             THEN ParseOk(Str(acc), Tail(s))
             ELSE IF c = "\\"
             THEN IF Len(s) < 2
                  THEN ParseFail
                  ELSE LET e == SubSeq(s, 2, 2)
                           d == CASE e = "\"" -> "\""
                                  [] e = "\\" -> "\\"
                                  [] e = "/" -> "/"
                                  [] e = "n" -> "\n"
                                  [] e = "t" -> "\t"
                                  [] e = "r" -> "\r"
                                  [] OTHER -> ""
                       IN  IF d = ""
                           THEN ParseFail
                           ELSE JsonString(SubSeq(s, 3, Len(s)), acc \o d)
             ELSE IF c \in {"\n", "\t", "\r", "\f"}
             THEN ParseFail
             ELSE JsonString(Tail(s), acc \o c)

\* A JSON number: -?(0|[1-9]\d*)(\.\d+)?
JsonNumber(s) ==
    LET neg  == Head(s) = "-"
        s1   == IF neg THEN Tail(s) ELSE s
        int  == IF Len(s1) > 0 /\ Head(s1) = "0" THEN "0" ELSE TakeDigits(s1)
        s2   == SubSeq(s1, Len(int) + 1, Len(s1))
        frac == IF Len(s2) > 0 /\ Head(s2) = "." THEN TakeDigits(Tail(s2)) ELSE ""
    IN  IF Len(int) = 0
        THEN ParseFail
        ELSE IF Len(frac) = 0
        THEN ParseOk(Num(IF neg THEN 0 - ToInt(int) ELSE ToInt(int)), s2)
        ELSE ParseOk(Float((IF neg THEN "-" ELSE "") \o int \o "." \o frac),
                     SubSeq(s2, Len(frac) + 2, Len(s2)))

RECURSIVE JsonValue(_)
RECURSIVE JsonMembers(_, _)
JsonValue(s0) ==
    LET s == SkipSpace(s0)
        word(w) == Len(s) >= Len(w) /\ SubSeq(s, 1, Len(w)) = w
        after(w) == SubSeq(s, Len(w) + 1, Len(s))
    IN  IF Len(s) = 0 THEN ParseFail
        ELSE IF Head(s) = "{"
        THEN LET t == SkipSpace(Tail(s))
             IN  IF Len(t) > 0 /\ Head(t) = "}"
                 THEN ParseOk(Map(<<>>), Tail(t))
                 ELSE JsonMembers(t, <<>>)
        ELSE IF Head(s) = "\"" THEN JsonString(Tail(s), "")
        ELSE IF Head(s) = "-" \/ IsDigit(Head(s)) THEN JsonNumber(s)
        ELSE IF word("true") THEN ParseOk(Bool(TRUE), after("true"))
        ELSE IF word("false") THEN ParseOk(Bool(FALSE), after("false"))
        ELSE IF word("null") THEN ParseOk(None, after("null"))
        ELSE ParseFail

\* The "key": value pairs of an object, up to its closing brace; a key
\* given twice keeps its last value.
JsonMembers(s0, acc) ==
    LET s == SkipSpace(s0)
    IN  IF Len(s) = 0 \/ Head(s) # "\"" THEN ParseFail
        ELSE LET k == JsonString(Tail(s), "")
                 t == SkipSpace(k.rest)
             IN  IF ~k.ok \/ Len(t) = 0 \/ Head(t) # ":" THEN ParseFail
                 ELSE LET val == JsonValue(Tail(t))
                          u == SkipSpace(val.rest)
                          acc2 == [x \in DOMAIN acc \cup {k.v.v} |->
                                     IF x = k.v.v THEN val.v ELSE acc[x]]
                      IN  IF ~val.ok \/ Len(u) = 0 THEN ParseFail
                          ELSE IF Head(u) = "}" THEN ParseOk(Map(acc2), Tail(u))
                          ELSE IF Head(u) = "," THEN JsonMembers(Tail(u), acc2)
                          ELSE ParseFail

JsonLoads(s) ==
    LET r == JsonValue(s)
    IN  IF r.ok /\ Len(SkipSpace(r.rest)) = 0
        THEN Value(r.v)
        ELSE Raised("ValueError")

\* Mutant of Chunks: a backslash inside a quoted string escapes nothing.
RECURSIVE Chunks_noescape(_, _)
Chunks_noescape(cf, st) ==
    IF Len(cf) = 0
    THEN st
    ELSE IF Len(cf) > 1
    THEN LET h == Len(cf) \div 2
             left == Chunks_noescape(SubSeq(cf, 1, h), st)
         IN  IF Len(left.a) > 0
             THEN Chunks_noescape(SubSeq(cf, h + 1, Len(cf)), left)
             ELSE left
    ELSE LET c       == cf
             closes  == st.q /\ c = "\""
             cm1     == IF ~st.q /\ c = "#" THEN TRUE ELSE st.c
             cm2     == IF ~st.q /\ cm1 /\ c = "\n" THEN FALSE ELSE cm1
             opens   == ~st.q /\ ~cm1 /\ c = "\""
             a1      == IF opens THEN Append(st.a, "") ELSE st.a
             a2      == IF ~cm2 THEN [a1 EXCEPT ![Len(a1)] = @ \o c] ELSE a1
             a3      == IF closes THEN Append(a2, "") ELSE a2
         IN  [a |-> a3, q |-> (st.q /\ ~closes) \/ opens, c |-> cm2, e |-> FALSE]

\* Mutant of Chunks: a '#' starts a comment inside a quoted string too.
RECURSIVE Chunks_hashinquote(_, _)
Chunks_hashinquote(cf, st) ==
    IF Len(cf) = 0
    THEN st
    ELSE IF Len(cf) > 1
    THEN LET h == Len(cf) \div 2
             left == Chunks_hashinquote(SubSeq(cf, 1, h), st)
         IN  IF Len(left.a) > 0
             THEN Chunks_hashinquote(SubSeq(cf, h + 1, Len(cf)), left)
             ELSE left
    ELSE LET c       == cf
             closes  == st.q /\ ~st.e /\ c = "\""
             escapes == st.q /\ ~st.e /\ c = "\\"
             cm1     == IF c = "#" THEN TRUE ELSE st.c
             cm2     == IF cm1 /\ c = "\n" THEN FALSE ELSE cm1
             opens   == ~st.q /\ ~cm1 /\ c = "\""
             a1      == IF opens THEN Append(st.a, "") ELSE st.a
             a2      == IF ~cm2 THEN [a1 EXCEPT ![Len(a1)] = @ \o c] ELSE a1
             a3      == IF closes THEN Append(a2, "") ELSE a2
         IN  [a |-> a3, q |-> (st.q /\ ~closes) \/ opens, c |-> cm2, e |-> escapes]

\* The character loop of _conf2json over the text cf, from the state st:
\* st.a is the list of chunks, st.q in_quote, st.c in_comment, st.e escape.
\* A quoted string is a chunk of its own (with its quotes), a comment is
\* dropped up to its newline.  The text is walked by halves, the left half
\* first (its result is looked at before the right half is entered), which
\* keeps the evaluation shallow; the characters are taken left to right.
RECURSIVE Chunks(_, _)
Chunks(cf, st) ==
    IF Len(cf) = 0
    THEN st
    ELSE IF Len(cf) > 1
    THEN LET h == Len(cf) \div 2
             left == Chunks(SubSeq(cf, 1, h), st)
         IN  IF Len(left.a) > 0 THEN Chunks(SubSeq(cf, h + 1, Len(cf)), left) ELSE left
    ELSE LET c       == cf
             closes  == st.q /\ ~st.e /\ c = "\""
             escapes == st.q /\ ~st.e /\ c = "\\"
             cm1     == IF ~st.q /\ c = "#" THEN TRUE ELSE st.c
             cm2     == IF ~st.q /\ cm1 /\ c = "\n" THEN FALSE ELSE cm1
             opens   == ~st.q /\ ~cm1 /\ c = "\""
             a1      == IF opens THEN Append(st.a, "") ELSE st.a
             a2      == IF ~cm2 THEN [a1 EXCEPT ![Len(a1)] = @ \o c] ELSE a1
             a3      == IF closes THEN Append(a2, "") ELSE a2
         IN  [a |-> a3, q |-> (st.q /\ ~closes) \/ opens, c |-> cm2, e |-> escapes]

\* re.sub(pat, s, w) for the four substitutions of _conf2json, in order:
\*   1  ([^=\s])\s*{   ->  \1={       2  ;\s*}     ->  }
\*   3  }\s*([^}\s])   ->  };\1       4  ([;{}=])  ->  " \1 "
\* ReSubFrom scans the positions lo..hi of w; st.out is the text produced
\* and st.next the first position after the last match.
RECURSIVE ReSubFrom(_, _, _, _, _)
ReSubFrom(pat, w, lo, hi, st) ==
    IF lo > hi
    THEN st
    ELSE IF lo < hi
    THEN LET mid == (lo + hi) \div 2
             left == ReSubFrom(pat, w, lo, mid, st)
         IN  IF left.next > lo THEN ReSubFrom(pat, w, mid + 1, hi, left) ELSE left
    ELSE IF lo < st.next
    THEN st
    ELSE LET c   == SubSeq(w, lo, lo)
             sp  == SkipSpace(SubSeq(w, lo + 1, Len(w)))
             nx  == IF Len(sp) > 0 THEN Head(sp) ELSE ""
             end == Len(w) - Len(sp) + 2
         IN  IF pat = 1 /\ c # "=" /\ ~IsSpace(c) /\ nx = "{"
             THEN [out |-> st.out \o c \o "={", next |-> end]
             ELSE IF pat = 2 /\ c = ";" /\ nx = "}"
             THEN [out |-> st.out \o "}", next |-> end]
             ELSE IF pat = 3 /\ c = "}" /\ nx # "" /\ nx # "}"
             THEN [out |-> st.out \o "};" \o nx, next |-> end]
             ELSE IF pat = 4 /\ c \in {";", "{", "}", "="}
             THEN [out |-> st.out \o " " \o c \o " ", next |-> lo + 1]
             ELSE [out |-> st.out \o c, next |-> lo + 1]

ReSub(pat, w) == ReSubFrom(pat, w, 1, Len(w), [out |-> "", next |-> 1]).out

\* w.split(): st.words are the words read and st.cur the word in progress
RECURSIVE SplitFrom(_, _)
SplitFrom(w, st) ==
    IF Len(w) = 0
    THEN st
    ELSE IF Len(w) > 1
    THEN LET h == Len(w) \div 2
             left == SplitFrom(SubSeq(w, 1, h), st)
         IN  IF Len(left.cur) >= 0 THEN SplitFrom(SubSeq(w, h + 1, Len(w)), left) ELSE left
    ELSE IF ~IsSpace(w)
    THEN [st EXCEPT !.cur = @ \o w]
    ELSE IF st.cur = ""
    THEN st
    ELSE [words |-> Append(st.words, st.cur), cur |-> ""]

Split(w) == SplitFrom(w \o " ", [words |-> <<>>, cur |-> ""]).words

\* re.search('\A-?[1-9]\d*(\.\d+)?\Z', wx)
IsNumber(wx) ==
    LET s1   == IF Len(wx) > 0 /\ Head(wx) = "-" THEN Tail(wx) ELSE wx
        int  == TakeDigits(s1)
        s2   == SubSeq(s1, Len(int) + 1, Len(s1))
        frac == IF Len(s2) > 0 THEN TakeDigits(Tail(s2)) ELSE ""
    IN  /\ Len(int) > 0
        /\ Head(int) # "0"
        /\ \/ Len(s2) = 0
           \/ Head(s2) = "." /\ Len(frac) > 0 /\ Len(frac) = Len(s2) - 1

\* The JSON token of a word outside quotes.
Token(wx) ==
    IF wx = "=" THEN ":"
    ELSE IF wx = ";" THEN ","
    ELSE IF wx \in {"{", "}"} \/ IsNumber(wx) THEN wx
    ELSE "\"" \o JsonEscape(wx) \o "\""

\* The tokens of the chunks; the empty sequence stands for the IndexError
\* of w[0] on an empty chunk (a sequence of tokens of a text always has the
\* opening brace).
RECURSIVE Tokens(_)
Tokens(a) ==
    IF Len(a) = 0
    THEN <<"}">>
    ELSE LET w    == Head(a)
             rest == Tokens(Tail(a))
             ws   == Split(ReSub(4, ReSub(3, ReSub(2, ReSub(1, w)))))
         IN  IF Len(w) = 0 \/ rest = <<>>
             THEN <<>>
             ELSE IF Head(w) = "\""
             THEN <<w>> \o rest
             ELSE [i \in 1..Len(ws) |-> Token(ws[i])] \o rest

\* The groups of adjacent quoted tokens are joined into one string each
\* and the tokens concatenated: st.out is the text so far, and st.inq tells
\* that it ends with such a group.
RECURSIVE JoinTokens(_, _)
JoinTokens(ta, st) ==
    IF Len(ta) = 0
    THEN st
    ELSE IF Len(ta) > 1
    THEN LET h == Len(ta) \div 2
             left == JoinTokens(SubSeq(ta, 1, h), st)
         IN  IF Len(left.out) > 0 THEN JoinTokens(SubSeq(ta, h + 1, Len(ta)), left) ELSE left
    ELSE LET w == ta[1]
             body == SubSeq(w, 2, Len(w) - 1) \o "\""
         IN  IF Head(w) # "\""
             THEN [out |-> st.out \o w, inq |-> FALSE]
             ELSE IF st.inq
             THEN [out |-> SubSeq(st.out, 1, Len(st.out) - 1) \o body, inq |-> TRUE]
             ELSE [out |-> st.out \o "\"" \o body, inq |-> TRUE]

\* The state of the character loop at the end of the text cf.
Tokenize(cf) == Chunks(cf, [a |-> <<"">>, q |-> FALSE, c |-> FALSE, e |-> FALSE])

\* _conf2json(cf)
_conf2json(cf) ==
    LET st == Tokenize(cf)
        ta == Tokens(st.a)
    IN  IF st.q THEN Raised("RuntimeError")
        ELSE IF ta = <<>> THEN Raised("IndexError")
        ELSE Value(JoinTokens(ta, [out |-> "{", inq |-> FALSE]).out)

\* parseconf(cf)
parseconf(cf) ==
    LET d == JsonLoads(cf)
        j == _conf2json(cf)
    IN  IF d.st = "value" THEN d
        ELSE IF j.st = "raised" THEN j
        ELSE JsonLoads(j.val)

----------------------------------------------------------------------------
\* GaneshaNASHelper.allow_access and deny_access

\* Mutant of allow_access: the access type is not looked at.
allow_access_anytype(p, share, access) ==
    /\ proc[p].pc = "idle"
    /\ HasRoom(counter)
    /\ Step(p, [IdleRec EXCEPT !.op = "allow_access",
                               !.name = ExportName(share, access.id),
                               !.share = share, !.access = access,
                               !.pre = Snapshot,
                               !.pc = "gei_update"], TRUE)
    /\ UNCHANGED <<export_d, index_conf, tmps, live, counter, returned>>

allow_access(p, share, access) ==
    /\ proc[p].pc = "idle"
    /\ HasRoom(counter)
    /\ LET r == [IdleRec EXCEPT !.op = "allow_access",
                                !.name = ExportName(share, access.id),
                                !.share = share, !.access = access,
                                !.pre = Snapshot]
       IN  IF access.access_type # "ip"
           THEN Step(p, Done(r, "InvalidShareAccess"), TRUE)
           ELSE Step(p, [r EXCEPT !.pc = "gei_update"], TRUE)
    /\ UNCHANGED <<export_d, index_conf, tmps, live, counter, returned>>

deny_access(p, n) ==
    /\ proc[p].pc = "idle"
    /\ Step(p, [IdleRec EXCEPT !.op = "remove_export", !.name = n,
                               !.pc = "re_cat", !.pre = Snapshot], TRUE)
    /\ UNCHANGED <<export_d, index_conf, tmps, live, counter, returned>>

\* A caller takes the result of its finished call.
Return(p) ==
    /\ proc[p].pc = "done"
    /\ Step(p, IdleRec, TRUE)
    /\ UNCHANGED <<export_d, index_conf, tmps, live, counter, returned>>

----------------------------------------------------------------------------
\* GanesHarness.__init__ on a host where the engine was set up before (a
\* restart of the share service).

GanesHarness_init(p) ==
    /\ proc[p].pc = "idle"
    /\ Step(p, [IdleRec EXCEPT !.op = "__init__", !.pc = "in_mkdir_export",
                               !.pre = Snapshot], TRUE)
    /\ UNCHANGED <<export_d, index_conf, tmps, live, counter, returned>>

\* execute('mkdir', '-p', self._ganesha_export_dir)
init_mkdir_export_dir(p) ==
    /\ proc[p].pc = "in_mkdir_export"
    /\ \/ Step(p, [Logged(proc[p], "mkdir_export_dir", TRUE) EXCEPT
                      !.pc = "in_mkdir_db"], TRUE)
       \/ Step(p, Raise(Logged(proc[p], "mkdir_export_dir", FALSE), "mkdir"), TRUE)
    /\ UNCHANGED <<export_d, index_conf, tmps, live, counter, returned>>

\* execute('mkdir', '-p', os.path.dirname(self.ganesha_db_path))
init_mkdir_db_dir(p) ==
    /\ proc[p].pc = "in_mkdir_db"
    /\ \/ Step(p, [Logged(proc[p], "mkdir_db_dir", TRUE) EXCEPT
                      !.pc = "in_sqlite3"], TRUE)
       \/ Step(p, Raise(Logged(proc[p], "mkdir_db_dir", FALSE), "mkdir"), TRUE)
    /\ UNCHANGED <<export_d, index_conf, tmps, live, counter, returned>>

\* The sqlite3 call that creates and seeds the table.  Either the database
\* runs the statements ("create_table" is logged, with whether sqlite3
\* succeeded) and an error about the existing table is swallowed, or sqlite3
\* fails for another reason and its error is raised.
init_sqlite3(p) ==
    /\ proc[p].pc = "in_sqlite3"
    /\ \/ LET out == SqlCreate(counter)
              r == Logged(proc[p], "create_table", out.stderr = "")
          IN  /\ counter' = out.value
              /\ IF out.stderr = "" \/ Tolerated(out.stderr)
                 THEN Step(p, Done(r, "ok"), TRUE)
                 ELSE Step(p, Raise(r, "sqlite3"), TRUE)
       \/ /\ Step(p, Raise(Logged(proc[p], "sqlite3", FALSE), "sqlite3"), TRUE)
          /\ UNCHANGED counter
    /\ UNCHANGED <<export_d, index_conf, tmps, live, returned>>

----------------------------------------------------------------------------
\* GanesHarness.get_export_id

get_export_id(p) ==
    /\ proc[p].pc = "idle"
    /\ HasRoom(counter)
    /\ Step(p, [IdleRec EXCEPT !.op = "get_export_id", !.pc = "gei_update",
                               !.pre = Snapshot], TRUE)
    /\ UNCHANGED <<export_d, index_conf, tmps, live, counter, returned>>

get_export_id_update(p) ==
    /\ proc[p].pc = "gei_update"
    /\ \/ /\ HasRoom(counter)
          /\ counter' = SqlUpdate(counter)
          /\ Step(p, [Logged(proc[p], "sqlite3", TRUE) EXCEPT
                         !.pc = "gei_select", !.mine = counter'], TRUE)
       \/ /\ Step(p, Raise(Logged(proc[p], "sqlite3", FALSE), "sqlite3"), TRUE)
          /\ UNCHANGED counter
    /\ UNCHANGED <<export_d, index_conf, tmps, live, returned>>

\* 'select * from ganesha where key = "exportid";' and the int(...) of its
\* output.  In allow_access the value becomes Export_Id of the document that
\* patch builds from the template, and add_export starts
\* (xid = cfdict["EXPORT"]["Export_Id"]; undos = []).  The dicts that the
\* document shares with the template are the same objects in the template
\* and in the documents of the add_export calls that are under way.
get_export_id_select(p) ==
    /\ proc[p].pc = "gei_select"
    /\ returned' = Append(returned, counter)
    /\ IF proc[p].op = "get_export_id"
       THEN Step(p, Done([proc[p] EXCEPT !.xid = counter], "ok"), TRUE)
       ELSE LET ovl == Overrides(proc[p].share, proc[p].access, counter)
                cf == patch(<<>>, <<export_template, ovl>>)
            IN  /\ proc' = [q \in Procs |->
                               IF q = p
                               THEN [proc[p] EXCEPT !.doc = cf,
                                                    !.xid = Export_Id(cf),
                                                    !.pc = "ae_check",
                                                    !.undos = <<>>]
                               ELSE IF proc[q].pc \notin {"idle", "done"}
                                       /\ proc[q].doc # <<>>
                                    THEN [proc[q] EXCEPT
                                             !.doc = Shared(@, ovl, cf)]
                                    ELSE proc[q]]
                /\ clean' = (clean /\ files[proc[p].name] = NoFile)
                /\ export_template' = Shared(export_template, ovl, cf)
                /\ UNCHANGED <<fcall, gvars>>
    /\ UNCHANGED <<export_d, index_conf, tmps, live, counter>>

----------------------------------------------------------------------------
\* GanesHarness.add_export (entered from allow_access)

\* _write_export_file: a document with a value that is still a "@..." stub
\* is refused before any command runs.
_write_export_file_check(p) ==
    /\ proc[p].pc = "ae_check"
    /\ \E e \in StubCheck(proc[p].doc) :
           IF e = "ok"
           THEN Step(p, [proc[p] EXCEPT !.pc = "wf_mktemp"], TRUE)
           ELSE Step(p, Raise(proc[p], e), TRUE)
    /\ UNCHANGED <<export_d, index_conf, tmps, live, counter, returned>>

\* _write_file: mktemp -p export.d -t <name>.conf.XXXXXX
_write_file_mktemp(p) ==
    /\ proc[p].pc = "wf_mktemp"
    /\ \/ Step(p, [Logged(proc[p], "mktemp", TRUE) EXCEPT
                      !.pc = "wf_cat", !.tmp = "empty"], TRUE)
       \/ Step(p, Raise(Logged(proc[p], "mktemp", FALSE), "mktemp"), TRUE)
    /\ UNCHANGED <<export_d, index_conf, tmps, live, counter, returned>>

\* Mutant of _write_file_cat: the exit code of cat is not checked.
_write_file_cat_unchecked(p) ==
    /\ proc[p].pc = "wf_cat"
    /\ \/ Step(p, [Logged(proc[p], "cat", TRUE) EXCEPT
                      !.pc = "wf_mv", !.tmp = "complete"], TRUE)
       \/ Step(p, [Logged(proc[p], "cat", FALSE) EXCEPT
                      !.pc = "wf_mv", !.tmp = "partial"], TRUE)
    /\ UNCHANGED <<export_d, index_conf, tmps, live, counter, returned>>

\* _write_file: sh -c 'cat > tmpf' fed with the text of the document.  When
\* it fails, the temporary file stays behind with whatever was written.
_write_file_cat(p) ==
    /\ proc[p].pc = "wf_cat"
    /\ \/ /\ Step(p, [Logged(proc[p], "cat", TRUE) EXCEPT
                         !.pc = "wf_mv", !.tmp = "complete"], TRUE)
          /\ UNCHANGED tmps
       \/ /\ Step(p, Raise([Logged(proc[p], "cat", FALSE) EXCEPT
                               !.tmp = "partial"], "cat"), TRUE)
          /\ tmps' = tmps \cup {TempName(FileName(proc[p].name))}
    /\ UNCHANGED <<export_d, index_conf, live, counter, returned>>

\* Mutant of _write_file_mv: the undo action is registered before the write
\* is known to have succeeded.
_write_file_mv_eagerundo(p) ==
    /\ proc[p].pc = "wf_mv"
    /\ \/ /\ export_d' = [export_d EXCEPT ![proc[p].name] =
                             IF proc[p].tmp = "complete"
                             THEN Complete(proc[p].doc)
                             ELSE Partial(proc[p].doc)]
          /\ Step(p, [Logged(proc[p], "mv", TRUE) EXCEPT
                         !.pc = "ae_dbus", !.tmp = "none",
                         !.undos = RegisterUndo(@, "rm")], TRUE)
          /\ UNCHANGED tmps
       \/ /\ Step(p, Raise([Logged(proc[p], "mv", FALSE) EXCEPT
                               !.undos = RegisterUndo(@, "rm")], "mv"), TRUE)
          /\ tmps' = tmps \cup {TempName(FileName(proc[p].name))}
          /\ UNCHANGED export_d
    /\ UNCHANGED <<index_conf, live, counter, returned>>

\* mv tmpf path puts the temporary file in the place of the export file;
\* add_export then registers the undo action that removes it again.
_write_file_mv(p) ==
    /\ proc[p].pc = "wf_mv"
    /\ \/ /\ export_d' = [export_d EXCEPT ![proc[p].name] =
                             IF proc[p].tmp = "complete"
                             THEN Complete(proc[p].doc)
                             ELSE Partial(proc[p].doc)]
          /\ Step(p, [Logged(proc[p], "mv", TRUE) EXCEPT
                         !.pc = "ae_dbus", !.tmp = "none",
                         !.undos = RegisterUndo(@, "rm")], TRUE)
          /\ UNCHANGED tmps
       \/ /\ Step(p, Raise(Logged(proc[p], "mv", FALSE), "mv"), TRUE)
          /\ tmps' = tmps \cup {TempName(FileName(proc[p].name))}
          /\ UNCHANGED export_d
    /\ UNCHANGED <<index_conf, live, counter, returned>>

\* Mutant of _dbus_send_AddExport: a failure of the call is passed over.
_dbus_send_AddExport_unchecked(p) ==
    /\ proc[p].pc = "ae_dbus"
    /\ \/ /\ live' = live \cup {proc[p].xid}
          /\ Step(p, [Logged(proc[p], "AddExport", TRUE) EXCEPT
                         !.pc = "ix_ls",
                         !.undos = RegisterUndo(@, "RemoveExport")], TRUE)
       \/ /\ Step(p, [Logged(proc[p], "AddExport", FALSE) EXCEPT
                         !.pc = "ix_ls"], TRUE)
          /\ UNCHANGED live
    /\ UNCHANGED <<export_d, index_conf, tmps, counter, returned>>

\* _dbus_send_ganesha("AddExport", path, Export_Id), then the undo action
\* that sends RemoveExport is registered.
_dbus_send_AddExport(p) ==
    /\ proc[p].pc = "ae_dbus"
    /\ \/ /\ live' = live \cup {proc[p].xid}
          /\ Step(p, [Logged(proc[p], "AddExport", TRUE) EXCEPT
                         !.pc = "ix_ls",
                         !.undos = RegisterUndo(@, "RemoveExport")], TRUE)
       \/ /\ Step(p, Raise(Logged(proc[p], "AddExport", FALSE), "AddExport"), TRUE)
          /\ UNCHANGED live
    /\ UNCHANGED <<export_d, index_conf, tmps, counter, returned>>

\* _mkindex: ls of export.d, filtered to *.conf other than INDEX.conf.
_mkindex_ls(p) ==
    /\ proc[p].pc = "ix_ls"
    /\ \/ Step(p, [Logged(proc[p], "ls", TRUE) EXCEPT
                      !.pc = "ix_mktemp", !.ls = Listing], TRUE)
       \/ Step(p, Raise(Logged(proc[p], "ls", FALSE), "ls"), Quiet(proc[p]))
    /\ UNCHANGED <<export_d, index_conf, tmps, live, counter, returned>>

\* _mkindex: _write_conf_file("INDEX", index) -- mktemp of _write_file
_mkindex_mktemp(p) ==
    /\ proc[p].pc = "ix_mktemp"
    /\ \/ Step(p, [Logged(proc[p], "index_mktemp", TRUE) EXCEPT
                      !.pc = "ix_cat", !.tmp = "empty"], TRUE)
       \/ Step(p, Raise(Logged(proc[p], "index_mktemp", FALSE), "index_mktemp"),
               Quiet(proc[p]))
    /\ UNCHANGED <<export_d, index_conf, tmps, live, counter, returned>>

\* _mkindex: _write_conf_file("INDEX", index) -- cat > tmpf of _write_file
_mkindex_cat(p) ==
    /\ proc[p].pc = "ix_cat"
    /\ \/ /\ Step(p, [Logged(proc[p], "index_cat", TRUE) EXCEPT
                         !.pc = "ix_mv", !.tmp = "complete"], TRUE)
          /\ UNCHANGED tmps
       \/ /\ Step(p, Raise([Logged(proc[p], "index_cat", FALSE) EXCEPT
                               !.tmp = "partial"], "index_cat"), Quiet(proc[p]))
          /\ tmps' = tmps \cup {TempName(FileName("INDEX"))}
    /\ UNCHANGED <<export_d, index_conf, live, counter, returned>>

\* mv puts the new INDEX.conf in place: one include line for each name of the
\* listing.  add_export then returns; in remove_export the finally block
\* ends, and an exception pending from the try block is raised.
_mkindex_mv(p) ==
    /\ proc[p].pc = "ix_mv"
    /\ \/ /\ LET lines == [i \in DOMAIN proc[p].ls |-> IncludeLine(proc[p].ls[i])]
             IN  index_conf' = IF proc[p].tmp = "complete"
                               THEN Complete(lines)
                               ELSE Partial(lines)
          /\ LET r == [Logged(proc[p], "index_mv", TRUE) EXCEPT !.tmp = "none"]
             IN  Step(p, Done(r, IF r.err # "none" THEN r.err ELSE "ok"), TRUE)
          /\ UNCHANGED tmps
       \/ /\ Step(p, Raise(Logged(proc[p], "index_mv", FALSE), "index_mv"),
                  Quiet(proc[p]))
          /\ tmps' = tmps \cup {TempName(FileName("INDEX"))}
          /\ UNCHANGED index_conf
    /\ UNCHANGED <<export_d, live, counter, returned>>

\* except: for u in undos: u() -- one undo action.  An exception raised by
\* u() leaves the handler at once and is what the caller gets.
add_export_undo(p) ==
    /\ proc[p].pc = "ae_except"
    /\ proc[p].ui <= Len(proc[p].undos)
    /\ LET u == UndoAt(proc[p].undos, proc[p].ui)
       IN  \/ /\ u = "rm"
              /\ export_d[proc[p].name].st # "absent"
              /\ export_d' = [export_d EXCEPT ![proc[p].name] = Absent]
              /\ Step(p, [Logged(proc[p], "undo_rm", TRUE) EXCEPT !.ui = @ + 1],
                      TRUE)
              /\ UNCHANGED live
           \/ /\ u = "RemoveExport"
              /\ live' = live \ {proc[p].xid}
              /\ Step(p, [Logged(proc[p], "undo_RemoveExport", TRUE) EXCEPT
                             !.ui = @ + 1], TRUE)
              /\ UNCHANGED export_d
           \/ /\ Step(p, Done(Logged(proc[p], "undo_" \o u, FALSE), "undo_" \o u),
                      FALSE)
              /\ UNCHANGED <<export_d, live>>
    /\ UNCHANGED <<index_conf, tmps, counter, returned>>

\* except: ... raise -- all undo actions ran, the caught exception goes on.
add_export_reraise(p) ==
    /\ proc[p].pc = "ae_except"
    /\ proc[p].ui > Len(proc[p].undos)
    /\ Step(p, Done(proc[p], proc[p].err), TRUE)
    /\ UNCHANGED <<export_d, index_conf, tmps, live, counter, returned>>

----------------------------------------------------------------------------
\* GanesHarness.remove_export (entered from deny_access)

\* The documents that allow_access can hand to add_export.
ExportDocs ==
    {patch(<<>>, <<t, Overrides(share, access, xid)>>) :
        t \in Templates, share \in Shares, access \in Accesses,
        xid \in {base + i : base \in Bases, i \in 1..MaxAllocs}}

\* What parseconf makes of the text that mkconf makes of a document, for
\* each of these documents (computed once).
ReadBack == {<<d, parseconf(mkconf(d))>> : d \in ExportDocs}

\* parseconf of the text of an export file: _write_export_file has written
\* mkconf(cfdict) into it.
ParsedFile(cfdict) ==
    IF cfdict \in ExportDocs
    THEN (CHOOSE pr \in ReadBack : pr[1] = cfdict)[2]
    ELSE parseconf(mkconf(cfdict))

\* _read_export_file: cat of the export file and parseconf of its text; then
\* cfdict["EXPORT"]["Export_Id"].  A text that does not parse raises; an
\* Export_Id that was read back as a string makes "uint16:%d" % xid of
\* _remove_export_dbus raise TypeError before anything is sent.
_read_export_file(p) ==
    /\ proc[p].pc = "re_cat"
    /\ \/ /\ export_d[proc[p].name].st = "complete"
          /\ LET cfdict == ParsedFile(export_d[proc[p].name].data)
             IN  /\ cfdict.st = "value"
                 /\ IF cfdict.val.v.EXPORT.v.Export_Id.t = "n"
                    THEN Step(p, [Logged(proc[p], "read", TRUE) EXCEPT
                                     !.pc = "re_dbus",
                                     !.xid = Export_Id(cfdict.val.v)], TRUE)
                    ELSE Step(p, Raise(Logged(proc[p], "read", TRUE),
                                       "TypeError"), FALSE)
       \/ Step(p, Raise(Logged(proc[p], "read", FALSE), "read"), FALSE)
    /\ UNCHANGED <<export_d, index_conf, tmps, live, counter, returned>>

\* _remove_export_dbus(name, Export_Id)
_remove_export_dbus(p) ==
    /\ proc[p].pc = "re_dbus"
    /\ \/ /\ live' = live \ {proc[p].xid}
          /\ Step(p, [Logged(proc[p], "RemoveExport", TRUE) EXCEPT
                         !.pc = "re_rm"], TRUE)
       \/ /\ Step(p, Raise(Logged(proc[p], "RemoveExport", FALSE), "RemoveExport"),
                  FALSE)
          /\ UNCHANGED live
    /\ UNCHANGED <<export_d, index_conf, tmps, counter, returned>>

\* Mutant of _rm_export_file: rm takes every export file away.
_rm_export_file_glob(p) ==
    /\ proc[p].pc = "re_rm"
    /\ \/ /\ export_d[proc[p].name].st # "absent"
          /\ export_d' = [n \in Names |-> Absent]
          /\ Step(p, [Logged(proc[p], "rm", TRUE) EXCEPT !.pc = "ix_ls"], TRUE)
       \/ /\ Step(p, Done(Logged(proc[p], "rm", FALSE), "rm"), FALSE)
          /\ UNCHANGED export_d
    /\ UNCHANGED <<index_conf, tmps, live, counter, returned>>

\* finally: _rm_export_file(name); _mkindex() follows when rm succeeded.
_rm_export_file(p) ==
    /\ proc[p].pc = "re_rm"
    /\ \/ /\ export_d[proc[p].name].st # "absent"
          /\ export_d' = [export_d EXCEPT ![proc[p].name] = Absent]
          /\ Step(p, [Logged(proc[p], "rm", TRUE) EXCEPT !.pc = "ix_ls"], TRUE)
       \/ /\ Step(p, Done(Logged(proc[p], "rm", FALSE), "rm"), FALSE)
          /\ UNCHANGED export_d
    /\ UNCHANGED <<index_conf, tmps, live, counter, returned>>

----------------------------------------------------------------------------
\* The engine as the share driver uses it: one call at a time.

\* No other caller is inside a call or holds an unreturned result.
Alone(p) == \A q \in Procs \ {p} : proc[q].pc = "idle"

Next ==
    \E p \in Procs :
        \/ Alone(p) /\ \E share \in Shares, access \in Accesses :
                           allow_access(p, share, access)
        \/ Alone(p) /\ \E n \in Names : deny_access(p, n)
        \/ Alone(p) /\ get_export_id(p)
        \/ Alone(p) /\ GanesHarness_init(p)
        \/ init_mkdir_export_dir(p)
        \/ init_mkdir_db_dir(p)
        \/ init_sqlite3(p)
        \/ get_export_id_update(p)
        \/ get_export_id_select(p)
        \/ _write_export_file_check(p)
        \/ _write_file_mktemp(p)
        \/ _write_file_cat(p)
        \/ _write_file_mv(p)
        \/ _dbus_send_AddExport(p)
        \/ _mkindex_ls(p)
        \/ _mkindex_mktemp(p)
        \/ _mkindex_cat(p)
        \/ _mkindex_mv(p)
        \/ add_export_undo(p)
        \/ add_export_reraise(p)
        \/ _read_export_file(p)
        \/ _remove_export_dbus(p)
        \/ _rm_export_file(p)
        \/ Return(p)

Spec == Init /\ [][Next]_vars

\* Callers that do not serialize their get_export_id calls.
NextIds ==
    \E p \in Procs :
        \/ get_export_id(p)
        \/ get_export_id_update(p)
        \/ get_export_id_select(p)
        \/ Return(p)

SpecIds == Init /\ [][NextIds]_vars

\* Callers that do not serialize their allow_access calls: the steps of the
\* add_export calls of two callers interleave freely.
NextConc ==
    \E p \in Procs :
        \/ \E share \in Shares, access \in Accesses : allow_access(p, share, access)
        \/ get_export_id_update(p)
        \/ get_export_id_select(p)
        \/ _write_export_file_check(p)
        \/ _write_file_mktemp(p)
        \/ _write_file_cat(p)
        \/ _write_file_mv(p)
        \/ _dbus_send_AddExport(p)
        \/ _mkindex_ls(p)
        \/ _mkindex_mktemp(p)
        \/ _mkindex_cat(p)
        \/ _mkindex_mv(p)
        \/ add_export_undo(p)
        \/ add_export_reraise(p)
        \/ Return(p)

\* The counter has handed out ids before and leaves room for one call of
\* each caller.
InitConc ==
    /\ export_d = [n \in Names |-> Absent]
    /\ index_conf = Absent
    /\ tmps = {}
    /\ live = {}
    /\ counter = Seed + MaxAllocs - Cardinality(Procs)
    /\ proc = [p \in Procs |-> IdleRec]
    /\ returned = <<>>
    /\ clean = TRUE
    /\ export_template = TemplateFilled
    /\ fcall = NoCall
    /\ NoGluster

SpecConc == InitConc /\ [][NextConc]_vars

\* The engine on a host whose database has handed out all ids of the 16 bit
\* range: the exportid row holds 65535, the exports were removed again.
InitWide ==
    /\ export_d = [n \in Names |-> Absent]
    /\ index_conf = Absent
    /\ tmps = {}
    /\ live = {}
    /\ counter = UINT16_MAX
    /\ proc = [p \in Procs |-> IdleRec]
    /\ returned = <<>>
    /\ clean = TRUE
    /\ export_template \in Templates
    /\ fcall = NoCall
    /\ NoGluster

SpecWide == InitWide /\ [][Next]_vars

----------------------------------------------------------------------------
\* The pure functions, called on their own: patch on a base and up to
\* MaxOverlays overlays, and mkconf followed by parseconf on a document.
\* fcall.op is what is called, fcall.pc the function to run next, fcall.arg
\* the arguments, fcall.text the text mkconf wrote and fcall.out the result.

MaxOverlays == 2

\* Bases and overlays: nested maps two levels deep, a scalar where another
\* document has a map, keys of one side only, and the empty document.
PatchDocs ==
    { <<>>,
      [a |-> Map([x |-> Num(1), y |-> Num(2)])],
      [a |-> Map([y |-> Num(3), z |-> Num(4)])],
      [a |-> Num(5), b |-> Str("s")],
      [a |-> Map([x |-> Map([y |-> Num(1)])])],
      [a |-> Map([x |-> Map([z |-> Num(2)]), y |-> Num(6)])],
      [b |-> Map(<<>>)] }

OverlaySeqs == UNION {[1..n -> PatchDocs] : n \in 0..MaxOverlays}

\* The values of the supported shapes: strings (plain, with a blank, of
\* digits, empty), numbers, booleans, maps.
ConfValues ==
    { Str("x"), Str("a b"), Str("12"), Str(""), Str("/shares/s1"),
      Num(5), Num(0), Num(101), Bool(TRUE), Bool(FALSE),
      Map(<<>>), Map([b |-> Str("x"), c |-> Num(7)]) }

\* Documents: a value inside a block, a value at the top level, the empty
\* document, and the export templates.
CodecDocs ==
    {<<>>} \cup Templates
    \cup {[E |-> Map([a |-> v])] : v \in ConfValues}
    \cup {[E |-> Map([a |-> v, n |-> Num(2)])] : v \in ConfValues}
    \cup {[k |-> v] : v \in ConfValues}

\* Values written without quotes: integer and decimal literals, among them 0,
\* a negative number and numbers with a leading zero, and other words.
BareTokens ==
    {"0", "0600", "-5", "-0", "12", "1.5", "0.5", "abc", "1x", "1.", "-"}

\* A block that gives the key b the unquoted value tok.
BareText(tok) == "A { b = " \o tok \o "; }\n"

\* Texts handed to parseconf: blocks with plain and quoted values, comments,
\* escaped quotes and backslashes inside quotes, a backslash outside quotes,
\* a '#' and braces inside quotes, a quote and a brace inside a comment,
\* JSON, texts that end inside a quoted string, and texts with an unclosed
\* '{' or an unmatched '}'.
ConfTexts ==
    { "A { b = 1; }\n",
      "A { b = \"x y\"; }\n",
      "A { b = \"x#y\"; }\n",
      "A { b = \"{\"; }\n",
      "A { b = \"}\" ; c = 2; }\n",
      "# c \"q\nA { b = 1; }\n",
      "A { b = 1; # c }\n}\n",
      "A { b = \"a\\\"b\\\\\"; c = 1; }\n",
      "A { b = x\\y; }\n",
      "A { b = \"x#y\"; # c \"q\n  d = 2; }\n",
      "A { b = 1; } # c",
      "# {\nA { }\n",
      "{\"a\": {\"b\": 1}}",
      "A { b = \"x",
      "A { b = \"x; }\n",
      "A { b = 1; }\nB { c = \"",
      "{\"a\": \"x",
      "A { b = 1;\n",
      "A { B { c = 1; }\n",
      "A { b = \"x\"",
      "A { b = \"x\";",
      "A {",
      "{\"a\": {\"b\": 1}",
      "A { b = 1; } }\n",
      "}",
      "} A {",
      "A { } }\nB { }\n",
      "A { b = \"x\"; } }" }
    \cup {BareText(tok) : tok \in BareTokens}

\* Documents with None values: next to other values, at the top level, two
\* levels deep, under a key that another block gives a value, and as the
\* only value of a block.
NoneDocs ==
    { [E |-> Map([a |-> None, b |-> Num(1)])],
      [k |-> None, j |-> Str("x")],
      [E |-> Map([a |-> Map([c |-> None, d |-> Str("x")]), b |-> None])],
      [E |-> Map([a |-> None]), F |-> Map([a |-> Num(2), b |-> Map([a |-> None])])],
      [E |-> None] }

\* The files a template directory may hold, with their texts: two .conf
\* files and a .json file that set some keys in common, and two files with
\* other names.
TemplateFileText ==
    [f \in {"00_base.conf", "10_site.json", "20_over.conf", "README", "x.conf.bak"} |->
        CASE f = "00_base.conf" ->
               "EXPORT {\n  Squash = None;\n  CLIENT { Access_Type = RW; Clients = all; }\n}\n"
          [] f = "10_site.json" ->
               "{\"EXPORT\": {\"Squash\": \"Root\", \"CLIENT\": {\"Clients\": \"lan\"}}}"
          [] f = "20_over.conf" ->
               "EXPORT { CLIENT { Access_Type = RO; } Tag = t; }\n"
          [] OTHER ->
               "EXPORT { Squash = Other; Tag = other; }\n"]

\* What os.listdir(dpath) gives: the names of a directory, ENOENT when there
\* is no such directory, or another error.
TemplateDirs ==
    {[st |-> "ok", dl |-> dl] : dl \in SUBSET DOMAIN TemplateFileText}
    \cup {[st |-> "ENOENT", dl |-> {}], [st |-> "EACCES", dl |-> {}]}

\* Mutant of confrx_search: every file of the directory is taken.
confrx_search_any(f) == TRUE

\* GaneshaNASHelper.confrx.search(f), confrx = '\.(conf|json)\Z'
confrx_search(f) ==
    /\ Len(f) >= 5
    /\ SubSeq(f, Len(f) - 4, Len(f)) \in {".conf", ".json"}

\* _load_conf_dir(dpath, must_exist): the sorted .conf and .json files are
\* parsed and patched one after the other into an empty dict; an error of
\* parseconf leaves the loop.
_load_conf_dir(dir, must_exist) ==
    IF dir.st # "ok" /\ (dir.st # "ENOENT" \/ must_exist)
    THEN Raised("OSError")
    ELSE LET cfa    == LsOrder({f \in dir.dl : confrx_search(f)})
             parsed == [i \in DOMAIN cfa |-> parseconf(TemplateFileText[cfa[i]])]
             failed == {i \in DOMAIN cfa : parsed[i].st = "raised"}
         IN  IF failed # {}
             THEN parsed[CHOOSE i \in failed : \A j \in failed : i <= j]
             ELSE Value(Map(patch(<<>>, [i \in DOMAIN cfa |-> parsed[i].val.v])))

InitFn ==
    /\ StoreInit
    /\ NoGluster
    /\ export_template = TemplateFilled
    /\ \/ \E dir \in TemplateDirs, must_exist \in BOOLEAN :
            fcall = [op |-> "load", pc |-> "load", arg |-> <<dir, must_exist>>,
                     text |-> "", out |-> Pending]
       \/ \E base \in PatchDocs, ovls \in OverlaySeqs :
            fcall = [op |-> "patch", pc |-> "patch", arg |-> <<base>> \o ovls,
                     text |-> "", out |-> Pending]
       \/ \E d \in CodecDocs :
            fcall = [op |-> "roundtrip", pc |-> "mkconf", arg |-> <<d>>,
                     text |-> "", out |-> Pending]
       \/ \E d \in NoneDocs :
            fcall = [op |-> "mkconf", pc |-> "mkconf", arg |-> <<d>>,
                     text |-> "", out |-> Pending]
       \/ \E cf \in ConfTexts :
            fcall = [op |-> "parse", pc |-> "parseconf", arg |-> <<>>,
                     text |-> cf, out |-> Pending]

\* patch(base, *ovls)
patch_call ==
    /\ fcall.pc = "patch"
    /\ fcall' = [fcall EXCEPT !.pc = "done",
                              !.out = Value(Map(patch(Head(fcall.arg), Tail(fcall.arg))))]
    /\ UNCHANGED <<export_d, index_conf, tmps, live, counter, export_template,
                   proc, returned, clean, gvars>>

\* s = mkconf(d)
mkconf_call ==
    /\ fcall.pc = "mkconf"
    /\ fcall' = [fcall EXCEPT
                   !.pc = IF fcall.op = "roundtrip" THEN "parseconf" ELSE "done",
                   !.text = mkconf(fcall.arg[1])]
    /\ UNCHANGED <<export_d, index_conf, tmps, live, counter, export_template,
                   proc, returned, clean, gvars>>

\* parseconf(s)
parseconf_call ==
    /\ fcall.pc = "parseconf"
    /\ fcall' = [fcall EXCEPT !.pc = "done", !.out = parseconf(fcall.text)]
    /\ UNCHANGED <<export_d, index_conf, tmps, live, counter, export_template,
                   proc, returned, clean, gvars>>

\* _load_conf_dir(dpath, must_exist)
_load_conf_dir_call ==
    /\ fcall.pc = "load"
    /\ fcall' = [fcall EXCEPT !.pc = "done",
                              !.out = _load_conf_dir(fcall.arg[1], fcall.arg[2])]
    /\ UNCHANGED <<export_d, index_conf, tmps, live, counter, export_template,
                   proc, returned, clean, gvars>>

NextFn ==
    \/ _load_conf_dir_call
    \/ patch_call
    \/ mkconf_call
    \/ parseconf_call

SpecFn == InitFn /\ [][NextFn]_vars

----------------------------------------------------------------------------
\* GlusterfsNativeShareDriver: one GlusterFS volume backs one share.

\* Largest size a share asks for.
MaxSize == 4

\* No size: the None of a volume name without a size, and of a call of
\* _pop_gluster_vol without a size.  Like None it is false in a condition.
NoSize == 0

\* What _fetch_gluster_volumes finds on the servers: <server>:/<volume> ->
\* the size that glusterfs_volume_pattern extracts from the name.
VolSize ==
    [v \in {"host:/share", "host:/share2G", "host:/share3G"} |->
        CASE v = "host:/share2G" -> 2
          [] v = "host:/share3G" -> 3
          [] OTHER -> NoSize]

Volumes == DOMAIN VolSize

\* The export locations a caller may name: the volumes, one location that is
\* no volume, and a share without export location.
Locations == Volumes \cup {"host:/other", "None"}

\* self._glustermanager(vol)
_glustermanager(vol) == [export |-> vol]

\* do_setup, _update_gluster_vols_dict: the volumes of the shares of the
\* database are in use.
UsedDict(vols) == [v \in vols |-> _glustermanager(v)]

InitGluster ==
    /\ StoreInit
    /\ export_template = TemplateFilled
    /\ fcall = NoCall
    /\ \E vols \in SUBSET Volumes : gluster_used_vols_dict = UsedDict(vols)
    /\ volume_pattern_keys \in {{}, {"size"}}
    /\ gcall = NoGCall

GStep(r) ==
    /\ gcall' = r
    /\ UNCHANGED <<export_d, index_conf, tmps, live, counter, export_template,
                   proc, returned, clean, fcall, volume_pattern_keys>>

GDone(r, res) == [r EXCEPT !.pc = "idle", !.result = res]

\* The choice of _pop_gluster_vol among the volumes of voldict: the set of
\* the outcomes it can have, a volume or the exception raised.
PopChoice(size, used) ==
    LET unused_vols == Volumes \ used
        sized == {v \in unused_vols : VolSize[v] # NoSize /\ VolSize[v] >= size}
        unsized == {v \in unused_vols : VolSize[v] = NoSize}
    IN  IF size # NoSize /\ "size" \in volume_pattern_keys
        THEN IF sized # {}
             THEN \* sized_unused_vols.sort(); sized_unused_vols[0][1]
                  {[kind |-> "vol", val |-> v] :
                      v \in {w \in sized : \A x \in sized : VolSize[w] <= VolSize[x]}}
             ELSE IF unsized # {}
             THEN \* the list has the order in which the set was iterated
                  {[kind |-> "vol", val |-> v] : v \in unsized}
             ELSE {[kind |-> "raise", val |-> "GlusterfsException"]}
        ELSE \* unsized_unused_vols is the set unused_vols
             IF unused_vols # {}
             THEN {[kind |-> "raise", val |-> "TypeError"]}
             ELSE {[kind |-> "raise", val |-> "GlusterfsException"]}

\* create_share(context, share): export_location = _pop_gluster_vol(share['size'])
create_share(size) ==
    /\ gcall.pc = "idle"
    /\ GStep([NoGCall EXCEPT !.op = "create_share", !.pc = "pop_fetch",
                             !.size = size, !.pre = gluster_used_vols_dict])
    /\ UNCHANGED gluster_used_vols_dict

\* _pop_gluster_vol: voldict = self._fetch_gluster_volumes(), and the choice
\* of a volume.  create_share re-raises a GlusterfsException and lets any
\* other exception pass.
_fetch_gluster_volumes ==
    /\ gcall.pc = "pop_fetch"
    /\ \/ \E c \in PopChoice(gcall.size, DOMAIN gluster_used_vols_dict) :
            GStep(IF c.kind = "vol"
                  THEN [gcall EXCEPT !.pc = "pop_setup", !.fetch = "ok",
                                     !.vol = c.val]
                  ELSE GDone([gcall EXCEPT !.fetch = "ok"], c.val))
       \/ GStep(GDone([gcall EXCEPT !.fetch = "failed"], "GlusterfsException"))
    /\ UNCHANGED gluster_used_vols_dict

\* _pop_gluster_vol: self._setup_gluster_vol(vol), then
\*     self.gluster_used_vols_dict[vol] = self._glustermanager[vol]
\* The commands of _setup_gluster_vol are taken together: when one of them
\* fails GlusterfsException is raised.  The subscript of the method
\* _glustermanager raises TypeError before the assignment takes place.
_setup_gluster_vol ==
    /\ gcall.pc = "pop_setup"
    /\ \/ GStep(GDone([gcall EXCEPT !.setup = "ok"], "TypeError"))
       \/ GStep(GDone([gcall EXCEPT !.setup = "failed"], "GlusterfsException"))
    /\ UNCHANGED gluster_used_vols_dict

\* delete_share(context, share): a location that is not in use is ignored.
delete_share(locn) ==
    /\ gcall.pc = "idle"
    /\ LET r == [NoGCall EXCEPT !.op = "delete_share", !.locn = locn,
                                !.pre = gluster_used_vols_dict]
       IN  IF locn \in DOMAIN gluster_used_vols_dict
           THEN GStep([r EXCEPT !.pc = "wipe"])
           ELSE GStep(GDone(r, "None"))
    /\ UNCHANGED gluster_used_vols_dict

\* Mutant of _wipe_gluster_vol: delete_share goes on to release the volume
\* when the wipe has failed.
_wipe_gluster_vol_ignored ==
    /\ gcall.pc = "wipe"
    /\ \/ GStep([gcall EXCEPT !.pc = "push", !.wipe = "ok"])
       \/ GStep([gcall EXCEPT !.pc = "push", !.wipe = "failed"])
    /\ UNCHANGED gluster_used_vols_dict

\* delete_share: self._wipe_gluster_vol(gmgr).  Its commands are taken
\* together: when one of them fails GlusterfsException is raised.
_wipe_gluster_vol ==
    /\ gcall.pc = "wipe"
    /\ \/ GStep([gcall EXCEPT !.pc = "push", !.wipe = "ok"])
       \/ GStep(GDone([gcall EXCEPT !.wipe = "failed"], "GlusterfsException"))
    /\ UNCHANGED gluster_used_vols_dict

\* A direct call of _push_gluster_vol(exp_locn).
push_gluster_vol_call(locn) ==
    /\ gcall.pc = "idle"
    /\ GStep([NoGCall EXCEPT !.op = "_push_gluster_vol", !.pc = "push",
                             !.locn = locn, !.pre = gluster_used_vols_dict])
    /\ UNCHANGED gluster_used_vols_dict

\* _push_gluster_vol(exp_locn): self.gluster_used_vols_dict.pop(exp_locn)
_push_gluster_vol ==
    /\ gcall.pc = "push"
    /\ IF gcall.locn \in DOMAIN gluster_used_vols_dict
       THEN /\ gluster_used_vols_dict' =
                   [v \in DOMAIN gluster_used_vols_dict \ {gcall.locn} |->
                       gluster_used_vols_dict[v]]
            /\ GStep(GDone(gcall, "None"))
       ELSE /\ GStep(GDone(gcall, "GlusterfsException"))
            /\ UNCHANGED gluster_used_vols_dict

NextGluster ==
    \/ \E size \in 0..MaxSize : create_share(size)
    \/ _fetch_gluster_volumes
    \/ _setup_gluster_vol
    \/ \E locn \in Locations : delete_share(locn)
    \/ _wipe_gluster_vol
    \/ \E locn \in Locations : push_gluster_vol_call(locn)
    \/ _push_gluster_vol

SpecGluster == InitGluster /\ [][NextGluster]_vars

----------------------------------------------------------------------------
\* Vocabulary of the properties.

Finished(p) == proc[p].pc = "done"

\* Command c was issued in the call of r and ended as ok says.
InLog(r, c, ok) == \E i \in DOMAIN r.log : r.log[i] = [c |-> c, ok |-> ok]

Issued(r, c) == \E i \in DOMAIN r.log : r.log[i].c = c

\* The call of r is an allow_access that reached add_export.
InAddExport(r) == r.op = "allow_access" /\ r.xid # 0

InRemoveExport(r) == r.op = "remove_export"

UndoFailed(r) == InLog(r, "undo_rm", FALSE) \/ InLog(r, "undo_RemoveExport", FALSE)

\* The export of r was Absent when the call started.
AbsentBefore(r) ==
    /\ r.pre.files[r.name] = NoFile
    /\ r.name \notin r.pre.index
    /\ r.xid \notin r.pre.live

AllOrNothing(r) ==
    \/ files[r.name] # NoFile /\ r.xid \in live /\ r.name \in index
    \/ files[r.name] = NoFile /\ r.xid \notin live /\ r.name \notin index

IndexErrors == {"ls", "index_mktemp", "index_cat", "index_mv"}

\* No call is in progress.
AtRest == \A p \in Procs : proc[p].pc \in {"idle", "done"}

\* Index, export files and live registrations agree.
Consistent ==
    /\ index = {n \in Names : files[n] # NoFile}
    /\ live = {files[n] : n \in {m \in Names : files[m] # NoFile}}

----------------------------------------------------------------------------
C2_PublishRollback ==
    \A p \in Procs :
        Finished(p) /\ InAddExport(proc[p]) /\ InLog(proc[p], "AddExport", FALSE)
                    /\ InLog(proc[p], "mv", TRUE) /\ InLog(proc[p], "undo_rm", TRUE)
            => files[proc[p].name] = NoFile /\ proc[p].name \notin index

\* C3: a failing add_export raises the error of the step that failed first,
\* also when an undo action fails during rollback.
C3_OriginalErrorRaised ==
    \A p \in Procs :
        Finished(p) /\ InAddExport(proc[p]) /\ proc[p].result # "ok"
            => proc[p].result = proc[p].err

\* C4: when the index rebuild of add_export fails and the two registered
\* undo actions run, RemoveExport is issued before the export file is
\* deleted (undo in reverse order of registration).
C4_UndoInReverse ==
    \A p \in Procs :
        Finished(p) /\ InAddExport(proc[p]) /\ proc[p].err \in IndexErrors
                    /\ Issued(proc[p], "undo_rm")
                    /\ Issued(proc[p], "undo_RemoveExport")
            => \E i, j \in DOMAIN proc[p].log :
                   /\ proc[p].log[i].c = "undo_RemoveExport"
                   /\ proc[p].log[j].c = "undo_rm"
                   /\ i < j

\* C5, in the case most favourable to it (the rm and the index rebuild of
\* the cleanup succeed): when RemoveExport fails in remove_export for a name
\* whose file exists and parses, remove_export returns normally.
C5_ChannelFailureSwallowed ==
    \A p \in Procs :
        Finished(p) /\ InRemoveExport(proc[p])
                    /\ InLog(proc[p], "read", TRUE)
                    /\ InLog(proc[p], "RemoveExport", FALSE)
                    /\ InLog(proc[p], "rm", TRUE)
                    /\ InLog(proc[p], "index_mv", TRUE)
            => proc[p].result = "ok"

C7_RemoveUnpublishedIsNoop ==
    \A p \in Procs :
        Finished(p) /\ InRemoveExport(proc[p])
                    /\ proc[p].pre.files[proc[p].name] = NoFile
            => /\ proc[p].result = "ok"
               /\ index = proc[p].pre.index
               /\ \A n \in Names \ {proc[p].name} : files[n] = proc[p].pre.files[n]

C9_AtomicIncrement ==
    \A p, q \in Procs :
        /\ p # q
        /\ Finished(p) /\ proc[p].op = "get_export_id" /\ proc[p].result = "ok"
        /\ Finished(q) /\ proc[q].op = "get_export_id" /\ proc[q].result = "ok"
        => /\ proc[p].xid # proc[q].xid
           /\ proc[p].xid = proc[p].mine
           /\ proc[q].xid = proc[q].mine

\* C10: the values returned by sequential get_export_id calls are strictly
\* increasing, and all of them are greater than the seed.
C10_StrictlyIncreasing ==
    /\ \A i, j \in DOMAIN returned : i < j => returned[i] < returned[j]
    /\ \A i \in DOMAIN returned : returned[i] > Seed

\* A get_export_id call has just returned, after at least one earlier one.
C10_Witness ==
    /\ Len(returned) >= 2
    /\ \E p \in Procs :
           Finished(p) /\ proc[p].op = "get_export_id" /\ proc[p].result = "ok"

\* C11: GanesHarness.__init__ on a database that already has the exportid
\* row, whatever its value, leaves the row as it is and -- when the database
\* ran the create statement -- does not raise; the counter never falls back
\* below an id that was handed out.
C11_InitIdempotent ==
    /\ \A p \in Procs :
           Finished(p) /\ proc[p].op = "__init__"
               => /\ counter = proc[p].pre.counter
                  /\ Issued(proc[p], "create_table") => proc[p].result = "ok"
    /\ \A i \in DOMAIN returned : returned[i] <= counter

\* A GanesHarness.__init__ that met an existing table after ids were
\* handed out.
C11_Witness ==
    \E p \in Procs :
        /\ Finished(p) /\ proc[p].op = "__init__"
        /\ InLog(proc[p], "create_table", FALSE)
        /\ proc[p].pre.counter > Seed
        /\ Len(returned) > 0

\* C12: with serialized calls, whether they succeed or fail, no two export
\* files hold the same Export_Id, and the Export_Id of an existing file was
\* returned by get_export_id exactly once.
C12_ExportIdsUnique ==
    /\ \A n, m \in Names :
           n # m /\ files[n] # NoFile /\ files[m] # NoFile => files[n] # files[m]
    /\ \A n \in Names :
           files[n] # NoFile
               => Cardinality({i \in DOMAIN returned : returned[i] = files[n]}) = 1

\* Two export files exist, the id of the second handed out after the first
\* file was written.
C12_Witness ==
    /\ AtRest
    /\ \A n \in Names : files[n] # NoFile
    /\ \E n \in Names, i \in DOMAIN returned : returned[i] > files[n]

\* Some value of d, at any depth, is a string that starts with "@".
HasStub(d) ==
    \E kv \in walk(d) : kv[2].t = "s" /\ Len(kv[2].v) > 0 /\ Head(kv[2].v) = "@"

\* The commands of add_export in the order of the source, after the sqlite3
\* call of get_export_id.
AddExportOrder ==
    <<"sqlite3", "mktemp", "cat", "mv", "AddExport", "ls", "index_mktemp",
      "index_cat", "index_mv">>

UndoCommands == {"undo_rm", "undo_RemoveExport"}

\* C13: _write_export_file refuses a document that has a stub ("@...") at
\* any depth with InvalidParameterValue before any command runs -- no
\* temporary file, the export files, the index and the live exports as they
\* were -- and its check refuses no document that has no stub.
C13_StubsRejected ==
    \A p \in Procs :
        Finished(p) /\ InAddExport(proc[p])
            => /\ HasStub(proc[p].doc)
                     => /\ proc[p].result = "InvalidParameterValue"
                        /\ proc[p].log = <<[c |-> "sqlite3", ok |-> TRUE]>>
                        /\ proc[p].tmp = "none"
                        /\ tmps = proc[p].pre.tmps
                        /\ export_d = proc[p].pre.export_d
                        /\ index_conf = proc[p].pre.index_conf
                        /\ live = proc[p].pre.live
               /\ ~HasStub(proc[p].doc)
                     => \/ Issued(proc[p], "mktemp")
                        \/ proc[p].result = "ok"

\* C14: the file a _write_file is for is never seen with partial content:
\* until the mv, and after a failure of mktemp, cat or mv, it is as it was
\* before the call (absent included); after the mv it holds all the new data.
C14_AtomicWrites ==
    /\ \A n \in Names : export_d[n].st # "partial"
    /\ index_conf.st # "partial"
    /\ \A p \in Procs :
           LET r == proc[p]
           IN  /\ r.pc \in {"wf_mktemp", "wf_cat", "wf_mv"}
                     => export_d[r.name] = r.pre.export_d[r.name]
               /\ InLog(r, "mktemp", FALSE) \/ InLog(r, "cat", FALSE)
                                            \/ InLog(r, "mv", FALSE)
                     => export_d[r.name] = r.pre.export_d[r.name]
               /\ r.pc = "ae_dbus" => export_d[r.name] = Complete(r.doc)
               /\ r.pc \in {"ix_mktemp", "ix_cat", "ix_mv"}
                     => index_conf = r.pre.index_conf
               /\ InLog(r, "index_mktemp", FALSE) \/ InLog(r, "index_cat", FALSE)
                                                  \/ InLog(r, "index_mv", FALSE)
                     => index_conf = r.pre.index_conf
               /\ InLog(r, "index_mv", TRUE)
                     => index_conf = Complete([i \in DOMAIN r.ls |->
                                                  IncludeLine(r.ls[i])])

\* A cat that failed on its temporary file while the export file held an
\* earlier document.
C14_Witness ==
    \E p \in Procs :
        /\ InLog(proc[p], "cat", FALSE)
        /\ proc[p].tmp = "partial"
        /\ proc[p].pre.export_d[proc[p].name].st = "complete"
        /\ export_d[proc[p].name].st = "complete"

C16_StepOrder ==
    \A p \in Procs :
        LET r == proc[p]
        IN  r.op = "allow_access"
                => /\ \A j \in DOMAIN r.log :
                          r.log[j].c \notin UndoCommands
                              => /\ r.log[j].c = AddExportOrder[j]
                                 /\ \A i \in 1..(j - 1) : r.log[i].ok
                   /\ r.pc = "ae_dbus" \/ Issued(r, "AddExport")
                          => /\ InLog(r, "mv", TRUE)
                             /\ ~Issued(r, "undo_rm")
                                    => export_d[r.name] = Complete(r.doc)
                   /\ r.pc = "ix_ls" \/ Issued(r, "ls")
                          => InLog(r, "AddExport", TRUE)

\* An add_export whose AddExport failed after the file was in place.
C16_Witness ==
    \E p \in Procs :
        /\ Finished(p) /\ InAddExport(proc[p])
        /\ InLog(proc[p], "mv", TRUE)
        /\ InLog(proc[p], "AddExport", FALSE)
        /\ ~Issued(proc[p], "ls")

\* The export of r was Committed when the call started.
CommittedBefore(r) ==
    /\ r.pre.export_d[r.name].st = "complete"
    /\ r.name \in r.pre.index
    /\ r.pre.files[r.name] \in r.pre.live

\* C17: when remove_export has returned normally for a Committed export,
\* the export file does not exist, the index has no include line for it,
\* and RemoveExport was sent for the Export_Id its file held.
C17_RemovedIsAbsent ==
    \A p \in Procs :
        Finished(p) /\ InRemoveExport(proc[p]) /\ proc[p].result = "ok"
                    /\ CommittedBefore(proc[p])
            => /\ export_d[proc[p].name] = Absent
               /\ proc[p].name \notin index
               /\ \A i \in DOMAIN index_conf.data :
                      index_conf.data[i] # IncludeLine(FileName(proc[p].name))
               /\ InLog(proc[p], "RemoveExport", TRUE)
               /\ proc[p].xid = proc[p].pre.files[proc[p].name]
               /\ proc[p].xid \notin live

\* A remove_export of a Committed export has returned normally while
\* another export stays.
C17_Witness ==
    \E p \in Procs :
        /\ Finished(p) /\ InRemoveExport(proc[p]) /\ proc[p].result = "ok"
        /\ CommittedBefore(proc[p])
        /\ \E n \in Names : export_d[n].st = "complete"

\* C18: after a successful allow_access on a store without export files,
\* export.d has <share>_<access id>.conf and no other export file, the index
\* is the one include line of that file, and the file holds the Export_Id
\* that get_export_id returned and the Path, Pseudo, Tag and Clients of the
\* call, whatever the template gives for these keys.
C18_AllowAccessResult ==
    \A p \in Procs :
        LET r == proc[p]
            n == ExportName(r.share, r.access.id)
        IN  Finished(p) /\ r.op = "allow_access" /\ r.result = "ok"
                        /\ r.pre.export_d = [m \in Names |-> Absent]
                => /\ export_d[n].st = "complete"
                   /\ \A m \in Names \ {n} : export_d[m] = Absent
                   /\ index_conf = Complete(<<IncludeLine(FileName(n))>>)
                   /\ LET e == export_d[n].data.EXPORT.v
                      IN  /\ e.Export_Id = Num(returned[Len(returned)])
                          /\ e.Path = Str(BasePath \o "/" \o r.share)
                          /\ e.Pseudo = Str(BasePath \o "/" \o n)
                          /\ e.Tag = Str(r.access.id)
                          /\ e.CLIENT.v.Clients = Str(r.access.access_to)

\* A successful allow_access on a store without export files, with a
\* template that gives other values to all five keys.
C18_Witness ==
    \E p \in Procs :
        /\ Finished(p) /\ proc[p].op = "allow_access" /\ proc[p].result = "ok"
        /\ proc[p].pre.export_d = [m \in Names |-> Absent]
        /\ LET e == export_d[proc[p].name].data.EXPORT.v
               t == proc[p].pre.template.EXPORT.v
           IN  /\ t.Export_Id # e.Export_Id /\ t.Path # e.Path
               /\ t.Pseudo # e.Pseudo /\ t.Tag # e.Tag
               /\ t.CLIENT.v.Clients # e.CLIENT.v.Clients

\* r is the deep merge of the overlay o into the base b.
RECURSIVE DeepMerged(_, _, _)
DeepMerged(b, o, r) ==
    /\ DOMAIN r = DOMAIN b \cup DOMAIN o
    /\ \A k \in DOMAIN r :
         IF k \notin DOMAIN o
         THEN r[k] = b[k]
         ELSE IF k \in DOMAIN b /\ b[k].t = "m" /\ o[k].t = "m"
         THEN r[k].t = "m" /\ DeepMerged(b[k].v, o[k].v, r[k].v)
         ELSE r[k] = o[k]

\* C19: for every document d built from strings, numbers, booleans and
\* nested maps, parseconf(mkconf(d)) returns a document equal to d.
C19_RoundTrip ==
    (fcall.op = "roundtrip" /\ fcall.pc = "done")
        => (fcall.out = Value(Map(fcall.arg[1])))

\* C20: patch(base, o1, ..., on) returns the deep merge of on into
\* patch(base, o1, ..., on-1) (base itself when n = 0): a key of both whose
\* two values are maps is merged recursively, any other key of the overlay
\* takes the overlay's value, a key of base alone keeps its value; so a
\* value of the last overlay that is not a map is the result's, and
\* patch({a:{x:1,y:2}}, {a:{y:3,z:4}}) is {a:{x:1,y:3,z:4}}.
C20_PatchDeepMerges ==
    (fcall.op = "patch" /\ fcall.pc = "done") =>
        LET base == Head(fcall.arg)
            ovls == Tail(fcall.arg)
            n    == Len(ovls)
            r    == fcall.out.val.v
        IN  /\ fcall.out.st = "value" /\ fcall.out.val.t = "m"
            /\ n = 0 => r = base
            /\ n > 0 => /\ DeepMerged(patch(base, SubSeq(ovls, 1, n - 1)), ovls[n], r)
                        /\ \A k \in DOMAIN ovls[n] : ovls[n][k].t # "m" => r[k] = ovls[n][k]
            /\ \A k \in DOMAIN base :
                 (\A i \in 1..n : k \notin DOMAIN ovls[i]) => r[k] = base[k]
            /\ fcall.arg = << [a |-> Map([x |-> Num(1), y |-> Num(2)])],
                              [a |-> Map([y |-> Num(3), z |-> Num(4)])] >>
                 => r = [a |-> Map([x |-> Num(1), y |-> Num(3), z |-> Num(4)])]

\* A call with two overlays has returned, in which a key held a map in the
\* base and in both overlays and the result's map is none of the three.
C20_Witness ==
    /\ fcall.op = "patch" /\ fcall.pc = "done" /\ Len(fcall.arg) = 3
    /\ \E k \in DOMAIN fcall.arg[1] \cap DOMAIN fcall.arg[2] \cap DOMAIN fcall.arg[3] :
         /\ \A i \in 1..3 : fcall.arg[i][k].t = "m"
         /\ \A i \in 1..3 : fcall.out.val.v[k] # fcall.arg[i][k]

\* The text outside quoted strings and comments.
RECURSIVE Bare(_)
Bare(a) ==
    IF Len(a) = 0
    THEN ""
    ELSE (IF Len(Head(a)) > 0 /\ Head(Head(a)) = "\"" THEN "" ELSE Head(a))
         \o Bare(Tail(a))

\* The text ends inside a quoted string.
EndsInQuote(cf) == Tokenize(cf).q

\* The braces outside quoted strings and comments do not match: a '}' has
\* no '{' before it to close, or a '{' is never closed.
Unbalanced(cf) ==
    LET s == Bare(Tokenize(cf).a)
        count(c, i) == Cardinality({j \in 1..i : SubSeq(s, j, j) = c})
    IN  \/ \E i \in 1..Len(s) : count("}", i) > count("{", i)
        \/ count("{", Len(s)) # count("}", Len(s))

\* C21: parseconf of a text that ends inside a quoted string, or whose
\* braces are unbalanced, returns no document and raises the error of a
\* malformed text: the RuntimeError of the tokenizer or the ValueError of
\* the JSON decoder.
C21_SyntaxError ==
    (fcall.op = "parse" /\ fcall.pc = "done"
       /\ (EndsInQuote(fcall.text) \/ Unbalanced(fcall.text)))
        => (fcall.out.st = "raised" /\ fcall.out.val \in {"RuntimeError", "ValueError"})

\* The callers p and q have each finished a successful allow_access, for
\* different export names.
BothPublished(p, q) ==
    /\ p # q /\ Finished(p) /\ Finished(q)
    /\ proc[p].op = "allow_access" /\ proc[q].op = "allow_access"
    /\ proc[p].result = "ok" /\ proc[q].result = "ok"
    /\ proc[p].name # proc[q].name

\* The export file of the name n exists and the index has no include line
\* for it.
LostUpdate(n) == export_d[n].st = "complete" /\ n \notin index

\* The call of q started when the call of p had put its file and its index
\* in place (the index rebuild is the last step of add_export).
StartedAfter(q, p) ==
    /\ proc[q].pre.export_d[proc[p].name].st = "complete"
    /\ proc[p].name \in proc[q].pre.index

\* C22: when two add_export calls for different names have both returned
\* successfully and the index lacks the include line of an export file that
\* exists, the two calls overlapped: neither started after the other had
\* finished.  Calls made one after the other never lose an include line.
C22_LostUpdateNeedsInterleaving ==
    \A p, q \in Procs :
        (BothPublished(p, q) /\ (LostUpdate(proc[p].name) \/ LostUpdate(proc[q].name)))
            => (~StartedAfter(q, p) /\ ~StartedAfter(p, q))

\* Two overlapping add_export calls for different names have both returned
\* successfully, both files exist, and the index has the include line of
\* only one of them.
C22_Witness ==
    \E p, q \in Procs :
        /\ BothPublished(p, q)
        /\ export_d[proc[p].name].st = "complete"
        /\ proc[p].name \in index
        /\ LostUpdate(proc[q].name)

\* The paths of keys of the document d that lead to a value other than None.
RECURSIVE KeyPaths(_)
KeyPaths(d) ==
    UNION { {<<k>>} \cup (IF d[k].t = "m"
                          THEN {<<k>> \o p : p \in KeyPaths(d[k].v)}
                          ELSE {})
            : k \in {j \in DOMAIN d : d[j].t # "z"} }

\* All keys of the document d, at every depth.
RECURSIVE AllKeys(_)
AllKeys(d) ==
    DOMAIN d \cup UNION {IF d[k].t = "m" THEN AllKeys(d[k].v) ELSE {} : k \in DOMAIN d}

\* The number of lines of the text s that are a line of the key k: the
\* indentation, the key, a blank.
KeyLines(s, k) ==
    LET start(i) == \E j \in 1..i :
                       /\ j = 1 \/ SubSeq(s, j - 1, j - 1) = "\n"
                       /\ \A h \in j..(i - 1) : SubSeq(s, h, h) = " "
    IN  Cardinality({i \in 1..(Len(s) - Len(k)) :
                        start(i) /\ SubSeq(s, i, i + Len(k)) = k \o " "})

\* C23: in the text mkconf writes for a document, every key has as many
\* lines as it has values other than None in the document, at all depths
\* together: a key whose value is None has no line, every other key has
\* exactly one.
C23_NoneOmitted ==
    (fcall.op = "mkconf" /\ fcall.pc = "done") =>
        \A k \in AllKeys(fcall.arg[1]) :
            KeyLines(fcall.text, k)
                = Cardinality({p \in KeyPaths(fcall.arg[1]) : p[Len(p)] = k})

\* mkconf has written a document that has a None value two levels deep, next
\* to a value that is written, and a None value one level deep.
C23_Witness ==
    /\ fcall.op = "mkconf" /\ fcall.pc = "done"
    /\ fcall.arg[1] = [E |-> Map([a |-> Map([c |-> None, d |-> Str("x")]), b |-> None])]
    /\ fcall.text = "E {\n  a {\n    d = x;\n  }\n}\n"

\* A call of the glusterfs_native driver has ended.
GFinished(op) == gcall.op = op /\ gcall.pc = "idle"

\* The volumes in use when the current call started, and those not in use.
UsedBefore == DOMAIN gcall.pre

UnusedBefore == Volumes \ UsedBefore

\* The unused volumes that _pop_gluster_vol may hand out for the size asked
\* for: with a size and a size group the sized volumes that are large enough
\* and of those the smallest, without them the volumes without a size;
\* otherwise any unused volume.
Suitable ==
    LET sized == {v \in UnusedBefore : VolSize[v] # NoSize /\ VolSize[v] >= gcall.size}
    IN  IF gcall.size # NoSize /\ "size" \in volume_pattern_keys
        THEN IF sized # {}
             THEN {v \in sized : \A w \in sized : VolSize[v] <= VolSize[w]}
             ELSE {v \in UnusedBefore : VolSize[v] = NoSize}
        ELSE UnusedBefore

\* Volume v is recorded as used with its manager.
Recorded(v) ==
    /\ v \in DOMAIN gluster_used_vols_dict
    /\ gluster_used_vols_dict[v] = _glustermanager(v)

C25_PopSelection ==
    (GFinished("create_share") /\ gcall.fetch = "ok") =>
        /\ (Suitable # {} /\ gcall.setup # "failed") => gcall.result \in Suitable
        /\ Suitable = {} =>
              /\ gcall.result = "GlusterfsException"
              /\ gcall.setup = "none"
              /\ gluster_used_vols_dict = gcall.pre

\* C26: delete_share releases a volume only after a successful wipe: a
\* location that is not in use is ignored without a wipe and without a change
\* of gluster_used_vols_dict; after a failed wipe GlusterfsException is raised
\* and the volume stays in use; after a successful wipe the volume is no
\* longer in use; _push_gluster_vol of a location that is not in use raises
\* GlusterfsException.
C26_ReleaseAfterWipe ==
    /\ GFinished("delete_share") =>
          /\ gcall.locn \notin UsedBefore =>
                /\ gcall.wipe = "none"
                /\ gcall.result = "None"
                /\ gluster_used_vols_dict = gcall.pre
          /\ gcall.wipe = "failed" =>
                /\ gcall.result = "GlusterfsException"
                /\ gluster_used_vols_dict = gcall.pre
          /\ (gcall.locn \in UsedBefore /\ gcall.wipe = "ok") =>
                /\ gcall.result = "None"
                /\ DOMAIN gluster_used_vols_dict = UsedBefore \ {gcall.locn}
          /\ gcall.locn \in UsedBefore \ DOMAIN gluster_used_vols_dict =>
                gcall.wipe = "ok"
    /\ (GFinished("_push_gluster_vol") /\ gcall.locn \notin UsedBefore) =>
          /\ gcall.result = "GlusterfsException"
          /\ gluster_used_vols_dict = gcall.pre

\* A delete_share has wiped and released a volume that was in use.
C26_Witness ==
    /\ GFinished("delete_share")
    /\ gcall.wipe = "ok"
    /\ gcall.locn \in UsedBefore \ DOMAIN gluster_used_vols_dict

\* C27: the counter moves only by increments of one, made by the update
\* statement of get_export_id: no step of any operation lowers or resets it;
\* a completed get_export_id has raised the stored value by exactly 1 and
\* returned the new value; the stored value is the seed plus the number of
\* allocations made (those whose value was returned and those whose update
\* has run); an allow_access that fails after its allocation leaves the
\* counter raised.
C27_CounterByOne ==
    /\ [][\/ counter' = counter
          \/ /\ counter' = counter + 1
             /\ \E p \in Procs : /\ proc[p].pc = "gei_update"
                                 /\ proc'[p].pc = "gei_select"]_vars
    /\ [](counter = Seed + Len(returned)
                      + Cardinality({p \in Procs : proc[p].pc = "gei_select"}))
    /\ [](\A p \in Procs :
              (Finished(p) /\ proc[p].op \in {"get_export_id", "allow_access"}
                           /\ proc[p].xid # 0)
                  => /\ proc[p].xid = proc[p].pre.counter + 1
                     /\ counter = proc[p].xid
                     /\ returned[Len(returned)] = proc[p].xid)

\* An allow_access whose AddExport failed has ended after an earlier
\* allocation, and the counter holds the id it consumed.
C27_Witness ==
    \E p \in Procs :
        /\ Finished(p) /\ proc[p].op = "allow_access"
        /\ InLog(proc[p], "AddExport", FALSE)
        /\ proc[p].pre.counter > Seed
        /\ counter = proc[p].pre.counter + 1

\* C28: when add_export fails, every undo action registered so far is
\* attempted before the call raises, also when an undo action that ran
\* earlier has failed: after a failed deletion of the export file in the
\* rollback, RemoveExport is still issued for an export that was registered.
C28_RollbackComplete ==
    \A p \in Procs :
        (Finished(p) /\ InAddExport(proc[p]) /\ proc[p].result # "ok")
            => \A i \in DOMAIN proc[p].undos :
                   Issued(proc[p], "undo_" \o proc[p].undos[i])

\* The Export_Id that parseconf finds in the text of the export file f.
StoredExportId(f) == Export_Id(ParsedFile(f.data).val.v)

\* C29: remove_export(name) sends RemoveExport with exactly the Export_Id
\* that the text of the export file of name holds, and when add_export has
\* written the file and is about to send AddExport, the Export_Id that the
\* text of the file holds is the id it passes to AddExport: the id survives
\* the write and the read of the file unchanged.
C29_SameExportId ==
    \A p \in Procs :
        /\ (InRemoveExport(proc[p]) /\ Issued(proc[p], "RemoveExport"))
              => /\ proc[p].pre.export_d[proc[p].name].st = "complete"
                 /\ proc[p].xid = StoredExportId(proc[p].pre.export_d[proc[p].name])
                 /\ proc[p].xid = proc[p].pre.files[proc[p].name]
        /\ (proc[p].op = "allow_access" /\ proc[p].pc = "ae_dbus")
              => /\ export_d[proc[p].name].st = "complete"
                 /\ StoredExportId(export_d[proc[p].name]) = proc[p].xid

\* A remove_export has sent RemoveExport for a file that held the second id
\* handed out.
C29_Witness ==
    \E p \in Procs :
        /\ Finished(p) /\ InRemoveExport(proc[p])
        /\ InLog(proc[p], "RemoveExport", TRUE)
        /\ proc[p].xid = Seed + 2

\* The state of the character loop of _conf2json after the first i
\* characters of the text of the current call.
LoopState(i) == Tokenize(SubSeq(fcall.text, 1, i))

\* The i-th character of the text of the current call.
CharAt(i) == SubSeq(fcall.text, i, i)

\* parseconf has run _conf2json on the text of the current call.
Tokenized ==
    fcall.op = "parse" /\ fcall.pc = "done" /\ JsonLoads(fcall.text).st = "raised"

\* C30: the character loop of _conf2json is never inside a quoted string and
\* inside a comment at once; a '#' inside a quoted string starts no comment
\* and is written to the chunk of the string; a '"' inside a comment opens no
\* string; a comment lasts until the next newline and ends there; and no
\* character of a comment is written to a chunk.
C30_QuoteXorComment ==
    Tokenized =>
        \A i \in 1..Len(fcall.text) :
            LET s0 == LoopState(i - 1)
                s1 == LoopState(i)
                c  == CharAt(i)
            IN  /\ ~(s1.q /\ s1.c)
                /\ (s0.q /\ c = "#") =>
                      /\ s1.q /\ ~s1.c
                      /\ s1.a = [s0.a EXCEPT ![Len(s0.a)] = @ \o "#"]
                /\ (s0.c /\ c = "\"") => (~s1.q /\ s1.c)
                /\ s0.c => (s1.c <=> c # "\n")
                /\ s1.c => s1.a = s0.a

\* parseconf has read a text with a '#' inside a quoted string and a '"'
\* inside a comment that ends at a newline before further items: the '#' is
\* in the value, the comment is not.
C30_Witness ==
    /\ Tokenized
    /\ \E i \in 1..Len(fcall.text) : LoopState(i - 1).q /\ CharAt(i) = "#"
    /\ \E i \in 1..Len(fcall.text) : LoopState(i - 1).c /\ CharAt(i) = "\""
    /\ fcall.out = Value(Map([A |-> Map([b |-> Str("x#y"), d |-> Num(2)])]))

\* C31: in the character loop of _conf2json a backslash inside a quoted
\* string escapes exactly the next character: the escape flag is set by an
\* unescaped backslash inside a quoted string and by nothing else, so never
\* outside a quoted string; an escaped character, be it '"' or a backslash,
\* neither closes the string nor escapes the character after it and is
\* written to the chunk of the string; an unescaped '"' closes the string.
C31_EscapeOneCharacter ==
    Tokenized =>
        \A i \in 1..Len(fcall.text) :
            LET s0 == LoopState(i - 1)
                s1 == LoopState(i)
                c  == CharAt(i)
            IN  /\ s1.e => s1.q
                /\ s1.e <=> (s0.q /\ ~s0.e /\ c = "\\")
                /\ (s0.q /\ s0.e) =>
                      /\ s1.q /\ ~s1.e
                      /\ s1.a = [s0.a EXCEPT ![Len(s0.a)] = @ \o c]
                /\ (s0.q /\ ~s0.e /\ c = "\"") => ~s1.q

\* parseconf has read a quoted string with an escaped '"' and with an
\* escaped backslash right before the closing '"': both are in the value.
C31_Witness ==
    /\ Tokenized
    /\ \E i \in 1..Len(fcall.text) : LoopState(i - 1).e /\ CharAt(i) = "\""
    /\ \E i \in 1..Len(fcall.text) : LoopState(i - 1).e /\ CharAt(i) = "\\"
    /\ fcall.out = Value(Map([A |-> Map([b |-> Str("a\"b\\"), c |-> Num(1)])]))

\* tok is an integer or decimal literal: an optional '-', digits, and
\* optionally a '.' followed by digits.
IsLiteral(tok) ==
    LET s1   == IF Len(tok) > 0 /\ Head(tok) = "-" THEN Tail(tok) ELSE tok
        int  == TakeDigits(s1)
        s2   == SubSeq(s1, Len(int) + 1, Len(s1))
    IN  /\ Len(int) > 0
        /\ \/ s2 = ""
           \/ /\ Head(s2) = "."
              /\ Len(s2) > 1
              /\ TakeDigits(Tail(s2)) = Tail(s2)

\* C32: parseconf decodes a bare value token that is an integer or decimal
\* literal (0, negative numbers and numbers with a leading zero included) as
\* a number, and every other bare token as the string of its characters.
C32_BareTokenClasses ==
    \A tok \in BareTokens :
        (fcall.op = "parse" /\ fcall.pc = "done" /\ fcall.text = BareText(tok))
            => /\ fcall.out.st = "value"
               /\ IF IsLiteral(tok)
                  THEN fcall.out.val.v.A.v.b.t \in {"n", "f"}
                  ELSE fcall.out.val.v.A.v.b = Str(tok)

\* C33: the overflow of the export id is not handled: a get_export_id that
\* finds 65535 in the exportid row and whose sqlite3 command succeeds returns
\* 65536 and leaves 65536 in the row, with no wraparound and no rejection,
\* and the ids handed out keep increasing beyond the 16 bit range.
C33_NoWraparound ==
    /\ \A p \in Procs :
           (Finished(p) /\ proc[p].op = "get_export_id"
                        /\ proc[p].pre.counter = UINT16_MAX
                        /\ InLog(proc[p], "sqlite3", TRUE))
               => /\ proc[p].result = "ok"
                  /\ proc[p].xid = UINT16_MAX + 1
                  /\ counter = UINT16_MAX + 1
    /\ counter >= UINT16_MAX =>
           /\ \A i \in DOMAIN returned : returned[i] > UINT16_MAX
           /\ \A i, j \in DOMAIN returned : i < j => returned[i] < returned[j]

\* get_export_id has found 65535 in the exportid row and has returned 65536.
C33_Witness ==
    \E p \in Procs :
        /\ Finished(p) /\ proc[p].op = "get_export_id"
        /\ proc[p].pre.counter = UINT16_MAX
        /\ proc[p].xid = UINT16_MAX + 1
        /\ counter = UINT16_MAX + 1

\* The value the document d has at the path of keys, None when it has none.
RECURSIVE Lookup(_, _)
Lookup(d, path) ==
    IF Head(path) \notin DOMAIN d THEN None
    ELSE IF Len(path) = 1 THEN d[Head(path)]
    ELSE IF d[Head(path)].t = "m" THEN Lookup(d[Head(path)].v, Tail(path))
    ELSE None

\* The documents that the .conf and .json files of the template directory
\* stand for.
TemplateFileDoc ==
    [f \in {"00_base.conf", "10_site.json", "20_over.conf"} |->
        CASE f = "00_base.conf" ->
               [EXPORT |-> Map([Squash |-> Str("None"),
                                CLIENT |-> Map([Access_Type |-> Str("RW"),
                                                Clients |-> Str("all")])])]
          [] f = "10_site.json" ->
               [EXPORT |-> Map([Squash |-> Str("Root"),
                                CLIENT |-> Map([Clients |-> Str("lan")])])]
          [] OTHER ->
               [EXPORT |-> Map([CLIENT |-> Map([Access_Type |-> Str("RO")]),
                                Tag |-> Str("t")])]]

\* The paths at which the files of the template directory set a value.
TemplatePaths ==
    {<<"EXPORT", "Squash">>, <<"EXPORT", "Tag">>,
     <<"EXPORT", "CLIENT", "Access_Type">>, <<"EXPORT", "CLIENT", "Clients">>}

\* The value that the files dl give to the path: that of the .conf or .json
\* file that sorts last among those that set it.
LastSet(dl, path) ==
    LET setters == {f \in dl \cap DOMAIN TemplateFileDoc :
                       Lookup(TemplateFileDoc[f], path) # None}
    IN  IF setters = {}
        THEN None
        ELSE Lookup(TemplateFileDoc[CHOOSE f \in setters :
                                        \A g \in setters \ {f} : StrLess(g, f)],
                    path)

\* C34: _load_conf_dir merges the .conf and .json files of the directory in
\* the sorted order of their names with patch: each value of the result is
\* that of the file sorting last among the files that set it, also inside
\* nested maps, and files with other extensions add nothing; a directory
\* that does not exist gives the empty template when must_exist is false
\* and an error otherwise.
C34_TemplateMerge ==
    (fcall.op = "load" /\ fcall.pc = "done") =>
        LET dir == fcall.arg[1]
            must_exist == fcall.arg[2]
        IN  /\ dir.st = "ENOENT" =>
                  fcall.out = (IF must_exist THEN Raised("OSError")
                                             ELSE Value(Map(<<>>)))
            /\ dir.st = "ok" =>
                  /\ fcall.out.st = "value"
                  /\ \A path \in TemplatePaths :
                         Lookup(fcall.out.val.v, path) = LastSet(dir.dl, path)
                  /\ AllKeys(fcall.out.val.v)
                         \subseteq UNION {{path[i] : i \in DOMAIN path} :
                                             path \in TemplatePaths}

\* A directory with three template files and two other files was loaded:
\* Squash comes from the .json file, Access_Type and Tag from the last .conf
\* file, nothing from the other files.
C34_Witness ==
    /\ fcall.op = "load" /\ fcall.pc = "done"
    /\ fcall.arg[1] = [st |-> "ok", dl |-> DOMAIN TemplateFileText]
    /\ fcall.out = Value(Map(
           [EXPORT |-> Map([Squash |-> Str("Root"), Tag |-> Str("t"),
                            CLIENT |-> Map([Access_Type |-> Str("RO"),
                                            Clients |-> Str("lan")])])]))

\* C35: allow_access leaves the export template as it found it: when a call
\* of allow_access has ended, self.export_template equals the template that
\* the call started with, so that no value of an export stays behind in the
\* template for the documents of later exports.
C35_TemplateUnchanged ==
    \A p \in Procs :
        (Finished(p) /\ proc[p].op = "allow_access")
            => export_template = proc[p].pre.template

\* C36: add_export(name, ...) and remove_export(name) leave the export files
\* of all other names as they were when the call started, at every step and
\* however the call ends; the temporary files they leave behind are those of
\* <name>.conf and of INDEX.conf.
C36_OtherFilesUntouched ==
    \A p \in Procs :
        proc[p].op \in {"allow_access", "remove_export"}
            => /\ \A m \in Names \ {proc[p].name} :
                      export_d[m] = proc[p].pre.export_d[m]
               /\ tmps \subseteq proc[p].pre.tmps
                                    \cup {TempName(FileName(proc[p].name)),
                                          TempName(FileName("INDEX"))}

\* A remove_export has taken the file of its name away and rebuilt the
\* index while the export file of another name is in place.
C36_Witness ==
    \E p \in Procs :
        /\ Finished(p) /\ proc[p].op = "remove_export"
        /\ proc[p].pre.export_d[proc[p].name].st = "complete"
        /\ export_d[proc[p].name] = Absent
        /\ index_conf # proc[p].pre.index_conf
        /\ \E m \in Names \ {proc[p].name} : export_d[m].st = "complete"

\* The names of the temporary files that _write_file makes in export.d.
TempNames == {TempName(FileName(n)) : n \in Names \cup {"INDEX"}}

\* The name f ends in .conf.
EndsInConf(f) == Len(f) >= 5 /\ SubSeq(f, Len(f) - 4, Len(f)) = ".conf"

\* C37: no name of a temporary file of _write_file ends in .conf, and every
\* line of INDEX.conf includes the export file <name>.conf of a name: a
\* temporary file that a failed _write_file left in export.d is in no index
\* that a later _mkindex writes.
C37_TempsNotIndexed ==
    /\ \A f \in TempNames : ~EndsInConf(f)
    /\ \A i \in DOMAIN index_conf.data :
           /\ \E n \in Names : index_conf.data[i] = IncludeLine(FileName(n))
           /\ \A f \in TempNames : index_conf.data[i] # IncludeLine(f)
    /\ \A p \in Procs : \A i \in DOMAIN proc[p].ls :
           EndsInConf(proc[p].ls[i]) /\ proc[p].ls[i] \notin TempNames

\* A call has rebuilt the index while export.d held the temporary file that
\* a failed write of an export file had left there.
C37_Witness ==
    \E p \in Procs : \E n \in Names :
        /\ Finished(p) /\ proc[p].result = "ok"
        /\ TempName(FileName(n)) \in proc[p].pre.tmps
        /\ index_conf.st = "complete" /\ index_conf.data # <<>>
        /\ index_conf # proc[p].pre.index_conf

\* C38: allow_access with an access type other than 'ip' ends with
\* InvalidShareAccess and has done nothing else: no command was run (no
\* export id allocated, the counter as before), no document was built from
\* the template, no file was written, no control-channel call was made and
\* the index is as before.
C38_NonIpRejected ==
    \A p \in Procs :
        (Finished(p) /\ proc[p].op = "allow_access"
                     /\ proc[p].access.access_type # "ip")
            => /\ proc[p].result = "InvalidShareAccess"
               /\ proc[p].log = <<>>
               /\ proc[p].xid = 0 /\ proc[p].doc = <<>>
               /\ counter = proc[p].pre.counter
               /\ export_d = proc[p].pre.export_d
               /\ tmps = proc[p].pre.tmps
               /\ live = proc[p].pre.live
               /\ index_conf = proc[p].pre.index_conf
               /\ export_template = proc[p].pre.template

\* An allow_access of type 'user' was refused on a store that holds a
\* published export.
C38_Witness ==
    \E p \in Procs :
        /\ Finished(p) /\ proc[p].op = "allow_access"
        /\ proc[p].access.access_type = "user"
        /\ proc[p].result = "InvalidShareAccess"
        /\ live # {} /\ index # {} /\ counter > Seed

\* The errors with which _write_export_file can end: the refusal of a
\* document (a stub, or the IndexError of an empty string) and the failure
\* of one of the commands of _write_file.
WriteErrors == {"InvalidParameterValue", "IndexError", "mktemp", "cat", "mv"}

\* C39: when add_export has failed in _write_export_file, no undo action has
\* run and the error of the write is what the caller gets: the export files,
\* that of the call's own name included, are as they were before the call,
\* no AddExport or RemoveExport was sent, the registered exports and
\* INDEX.conf are as before.
C39_WriteFailureNoUndo ==
    \A p \in Procs :
        (Finished(p) /\ InAddExport(proc[p]) /\ proc[p].err \in WriteErrors)
            => /\ proc[p].undos = <<>>
               /\ \A i \in DOMAIN proc[p].log :
                      proc[p].log[i].c \notin {"undo_rm", "undo_RemoveExport",
                                               "AddExport", "RemoveExport", "ls"}
               /\ proc[p].result = proc[p].err
               /\ export_d = proc[p].pre.export_d
               /\ live = proc[p].pre.live
               /\ index_conf = proc[p].pre.index_conf

\* An add_export for a name whose export file is in place has failed at the
\* mv of its write, and the file holds what it held before.
C39_Witness ==
    \E p \in Procs :
        /\ Finished(p) /\ InAddExport(proc[p]) /\ proc[p].err = "mv"
        /\ proc[p].pre.export_d[proc[p].name].st = "complete"
        /\ export_d[proc[p].name] = proc[p].pre.export_d[proc[p].name]
        /\ proc[p].doc # export_d[proc[p].name].data

====
